---- MODULE Spec2Model ----
(***************************************************************************)
(* A model of the lifxi HTTP client: the request builders' attempt budget, *)
(* Request::send (the recursive retry loop and the classification of HTTP  *)
(* outcomes), the selector grammar (Display / FromStr for Selector, the    *)
(* Zoned and Random decorators), colors (FromStr, Display and              *)
(* Color::validate), the setters of the State, StateChange, SetState and   *)
(* ChangeState builders, and calls of send on two threads with one Client. *)
(***************************************************************************)
EXTENDS Integers, Sequences, FiniteSets, TLC

VARIABLES
    attempts,   \* the builder's `attempts: Option<NonZeroU8>`: <<>> or <<n>>
    phase,      \* "building", "sending", "returned" or "aborted"
    abortedBy,  \* why the call aborted: "", "underflow", "sleep", "stack"
    stack,      \* the active frames of send, innermost last: loop iterations left
    pc,         \* where the innermost frame stands: "request" or "loop"
    result,     \* the innermost frame's `result` (the returned value at the end)
    requests,   \* how many HTTP requests this call has issued
    lastSleep,  \* <<>> before the call has slept, then <<seconds>>: its last sleep
    waited,     \* seconds from the response before that sleep to the sleep's end
    last,       \* the classification of the most recent attempt
    only500,    \* every attempt so far was answered with HTTP 500
    cstatus,    \* classification: the status code of the response
    cheader,    \* classification: the x-ratelimit-reset header of the response
    cunix,      \* classification: the Unix time at which it is read
    cout,       \* classification: what the response is turned into
    cstep,      \* classification: "input" or "classified"
    eerr,       \* errors: the Error asked whether it is a client error
    eclient,    \* errors: what is_client_error answered
    estep,      \* errors: "start" or "checked"
    sel,        \* selector: the selector rendered, or NoSelector
    text,       \* selector: the string handed to the parser
    parsed,     \* selector: what parsing `text` returned
    sstep,      \* selector: "start", "text" or "parsed"
    zval,       \* decorators: the selector with its decorations so far
    zarg,       \* decorators: the argument zoned() was called with
    ztext,      \* decorators: the rendering of zval
    zstep,      \* decorators: "start", "built" or "rendered"
    vcolor,     \* validation: the color validated
    vout,       \* validation: what validate returned
    vstep,      \* validation: "start" or "validated"
    ptext,      \* color parsing: the string handed to the parser
    pout,       \* color parsing: what parsing `ptext` returned
    pstep,      \* color parsing: "start", "text", "parsed", "rendered", "reparsed"
    rtext,      \* color parsing: the parsed color written as a string
    rout,       \* color parsing: what parsing `rtext` returned
    bkind,      \* builders: "State", "StateChange", "SetState" or "ChangeState"
    builder,    \* builders: the builder's fields and its attempts
    bcall,      \* builders: the last method called on it, with its argument
    bcalled,    \* builders: the methods called on it so far
    bcalls,     \* builders: how many calls that is
    brequest,   \* builders: the body and the attempts handed over at the end
    bstep,      \* builders: "start", "building" or "sent"
    threads,    \* threads: for each thread, the call of send it is running
    token,      \* threads: the token of the Client the calls share
    learned     \* threads: the latest deadline any call was given, if any

engineVars == <<attempts, phase, abortedBy, stack, pc, result, requests,
                lastSleep, waited, last, only500>>
classifyVars == <<cstatus, cheader, cunix, cout, cstep, eerr, eclient, estep>>
selectorVars == <<sel, text, parsed, sstep>>
zoneVars == <<zval, zarg, ztext, zstep>>
validateVars == <<vcolor, vout, vstep>>
parseVars == <<ptext, pout, pstep, rtext, rout>>
builderVars == <<bkind, builder, bcall, bcalled, bcalls, brequest, bstep>>
threadVars == <<threads, token, learned>>
vars == <<attempts, phase, abortedBy, stack, pc, result, requests,
          lastSleep, waited, last, only500, cstatus, cheader, cunix, cout, cstep,
          eerr, eclient, estep,
          sel, text, parsed, sstep, zval, zarg, ztext, zstep,
          vcolor, vout, vstep, ptext, pout, pstep, rtext, rout,
          bkind, builder, bcall, bcalled, bcalls, brequest, bstep,
          threads, token, learned>>

---------------------------------------------------------------------------
(* Bounds of the model. *)

\* The largest attempt budget a caller asks for (NonZeroU8 reaches 255).
MaxAttempts == 3
\* How many frames of send fit on the thread's stack.
StackLimit == 3
\* The largest x-ratelimit-reset value a server sends, in seconds.
MaxReset == 3
\* The largest Unix time the system clock shows, in seconds.
MaxUnix == 2
\* The longest time that passes between a response and the loop's sleep.
MaxElapsed == 1
\* The status codes a server answers with, StatusLo..StatusHi.
StatusLo == 100
StatusHi == 599

---------------------------------------------------------------------------
(* Program constants. *)

\* fn unity() -> NonZeroU8
unity == 1
\* Instant::now() + Duration::from_secs(60)
FallbackSecs == 60
TOO_MANY_REQUESTS == 429
BAD_REQUEST == 400
UNPROCESSABLE_ENTITY == 422
UNAUTHORIZED == 401
FORBIDDEN == 403
NOT_FOUND == 404

\* Option<T>: None is <<>>, Some(x) is <<x>>.
None == <<>>
Some(x) == <<x>>

---------------------------------------------------------------------------
(* reqwest's side of the calls Request::send makes. *)

\* The URL of the request: format!("https://api.lifx.com/v1{}", self.path).
RequestUrl == "https://api.lifx.com/v1/lights/all"

\* The kinds of error `.send()` itself fails with (no response received).
TransportKinds == {"http", "serialization", "redirect", "other"}

\* reqwest::Error, as Request::send reads it: its kind, status() and url().
ReqwestError(kind, status, url) == [kind |-> kind, status |-> status, url |-> url]

\* Response::error_for_status: Err for 4xx and 5xx, Ok otherwise.
ErrorForStatus(status) ==
    IF status >= 400 /\ status <= 499
    THEN Some(ReqwestError("client", Some(status), Some(RequestUrl)))
    ELSE IF status >= 500 /\ status <= 599
    THEN Some(ReqwestError("server", Some(status), Some(RequestUrl)))
    ELSE None

---------------------------------------------------------------------------
(* The values of ClientResult = Result<Response, Error>. *)

Outcome(kind, status, reset, url) ==
    [kind |-> kind, status |-> status, reset |-> reset, url |-> url]

OkResponse(status) == Outcome("Ok", Some(status), None, None)
RateLimited(reset) == Outcome("RateLimited", None, reset, None)
NoOutcome == Outcome("none", None, None, None)

\* is_client_error with NotFound left out of the match.
is_client_error_without_not_found(e) ==
    e.kind \in {"RateLimited", "BadRequest", "BadAccessToken", "BadOAuthScope",
                "Client"}

\* is_client_error with Server added to the match.
is_client_error_with_server(e) ==
    e.kind \in {"RateLimited", "BadRequest", "BadAccessToken", "BadOAuthScope",
                "NotFound", "Client", "Server"}

\* Error::is_client_error
is_client_error(e) ==
    e.kind \in {"RateLimited", "BadRequest", "BadAccessToken", "BadOAuthScope",
                "NotFound", "Client"}

\* From<reqwest::Error> with UNPROCESSABLE_ENTITY missing from the first arm.
FromReqwestError_without_422(err) ==
    IF err.kind = "client"
    THEN IF err.status = Some(BAD_REQUEST)
         THEN Outcome("BadRequest", None, None, None)
         ELSE IF err.status = Some(UNAUTHORIZED)
         THEN Outcome("BadAccessToken", None, None, None)
         ELSE IF err.status = Some(FORBIDDEN)
         THEN Outcome("BadOAuthScope", None, None, None)
         ELSE IF err.status = Some(NOT_FOUND)
         THEN Outcome("NotFound", None, None, err.url)
         ELSE Outcome("Client", err.status, None, None)
    ELSE IF err.kind = "http" THEN Outcome("Http", None, None, None)
    ELSE IF err.kind = "serialization" THEN Outcome("Serialization", None, None, None)
    ELSE IF err.kind = "redirect" THEN Outcome("Redirect", None, None, None)
    ELSE IF err.kind = "server" THEN Outcome("Server", err.status, None, None)
    ELSE Outcome("Other", None, None, None)

\* impl From<reqwest::Error> for Error
FromReqwestError(err) ==
    IF err.kind = "client"
    THEN IF err.status = Some(BAD_REQUEST) \/ err.status = Some(UNPROCESSABLE_ENTITY)
         THEN Outcome("BadRequest", None, None, None)
         ELSE IF err.status = Some(UNAUTHORIZED)
         THEN Outcome("BadAccessToken", None, None, None)
         ELSE IF err.status = Some(FORBIDDEN)
         THEN Outcome("BadOAuthScope", None, None, None)
         ELSE IF err.status = Some(NOT_FOUND)
         THEN Outcome("NotFound", None, None, err.url)
         ELSE Outcome("Client", err.status, None, None)
    ELSE IF err.kind = "http" THEN Outcome("Http", None, None, None)
    ELSE IF err.kind = "serialization" THEN Outcome("Serialization", None, None, None)
    ELSE IF err.kind = "redirect" THEN Outcome("Redirect", None, None, None)
    ELSE IF err.kind = "server" THEN Outcome("Server", err.status, None, None)
    ELSE Outcome("Other", None, None, None)

\* The x-ratelimit-reset header of a response: absent, present with a value
\* that is not a u64, or present with the u64 `value`.
NoHeader == [present |-> FALSE, numeric |-> FALSE, value |-> 0]
GarbageHeader == [present |-> TRUE, numeric |-> FALSE, value |-> 0]
NumericHeader(v) == [present |-> TRUE, numeric |-> TRUE, value |-> v]
Headers == {NoHeader, GarbageHeader} \cup {NumericHeader(v) : v \in 0..MaxReset}

\* SystemTime::now().duration_since(UNIX_EPOCH).map(|t| t.as_secs()):
\* None when the system clock stands before the epoch.
UnixTimes == {None} \cup {Some(u) : u \in 0..MaxUnix}

\* The reset closure without its last line: an unreadable value gives no deadline.
ResetDeadline_without_fallback(hdr, unix) ==
    IF hdr.present /\ hdr.numeric /\ unix # None
    THEN IF hdr.value >= unix[1]
         THEN [panic |-> FALSE, reset |-> Some(hdr.value - unix[1])]
         ELSE [panic |-> TRUE, reset |-> None]
    ELSE [panic |-> FALSE, reset |-> None]

\* The reset closure adding the timestamp itself to `now`.
ResetDeadline_from_epoch(hdr, unix) ==
    IF ~hdr.present THEN [panic |-> FALSE, reset |-> None]
    ELSE IF hdr.numeric /\ unix # None
    THEN IF hdr.value >= unix[1]
         THEN [panic |-> FALSE, reset |-> Some(hdr.value)]
         ELSE [panic |-> TRUE, reset |-> None]
    ELSE [panic |-> FALSE, reset |-> Some(FallbackSecs)]

\* `let reset = headers.get(..).map(|s| ..)`: the deadline as seconds after the
\* Instant::now() taken with the response. `future - timestamp` is a u64
\* subtraction: below zero it panics in a build with overflow checks, and wraps
\* to more than i64::MAX seconds in one without, where `Instant + Duration`
\* panics; so `panic` in both.
ResetDeadline(hdr, unix) ==
    IF ~hdr.present THEN [panic |-> FALSE, reset |-> None]
    ELSE IF hdr.numeric /\ unix # None
    THEN IF hdr.value >= unix[1]
         THEN [panic |-> FALSE, reset |-> Some(hdr.value - unix[1])]
         ELSE [panic |-> TRUE, reset |-> None]
    ELSE [panic |-> FALSE, reset |-> Some(FallbackSecs)]

\* `result.error_for_status().map_err(|e| ..)`: the response as a ClientResult.
Classify(status, reset) ==
    LET e == ErrorForStatus(status) IN
    IF e = None THEN OkResponse(status)
    ELSE IF e[1].status = Some(TOO_MANY_REQUESTS) THEN RateLimited(reset)
    ELSE FromReqwestError(e[1])

---------------------------------------------------------------------------
(* Selectors: strings are sequences of characters. *)

\* The longest payload and the longest raw input string tried.
MaxLen == 3

\* Characters of payloads and inputs: letters, the separator and a blank.
Alphabet == {"a", "l", ":", " "}
\* char::is_whitespace, on Alphabet.
Whitespace == {" "}

Strings(n) == UNION {[1..k -> Alphabet] : k \in 0..n}

STR_all == <<"a", "l", "l">>
STR_label == <<"l", "a", "b", "e", "l">>
STR_id == <<"i", "d">>
STR_group_id == <<"g", "r", "o", "u", "p", "_", "i", "d">>
STR_group == <<"g", "r", "o", "u", "p">>
STR_location_id == <<"l", "o", "c", "a", "t", "i", "o", "n", "_", "i", "d">>
STR_location == <<"l", "o", "c", "a", "t", "i", "o", "n">>
STR_scene_id == <<"s", "c", "e", "n", "e", "_", "i", "d">>

\* enum Selector
PayloadTags == {"Label", "Id", "GroupId", "Group", "LocationId", "Location", "SceneId"}
Selector(tag, value) == [tag |-> tag, value |-> value]
All == Selector("All", <<>>)
NoSelector == Selector("none", <<>>)
Selectors == {All} \cup {Selector(t, v) : t \in PayloadTags, v \in Strings(MaxLen)}

\* Result<Selector, SelectorParseError>
ParseOk(s) == [ok |-> TRUE, sel |-> s, err |-> ""]
ParseErr(e) == [ok |-> FALSE, sel |-> NoSelector, err |-> e]
NotParsed == [ok |-> FALSE, sel |-> NoSelector, err |-> "none"]

\* impl fmt::Display for Selector
Render(s) ==
    CASE s.tag = "All" -> STR_all
      [] s.tag = "Label" -> STR_label \o <<":">> \o s.value
      [] s.tag = "Id" -> STR_id \o <<":">> \o s.value
      [] s.tag = "GroupId" -> STR_group_id \o <<":">> \o s.value
      [] s.tag = "Group" -> STR_group \o <<":">> \o s.value
      [] s.tag = "LocationId" -> STR_location_id \o <<":">> \o s.value
      [] s.tag = "Location" -> STR_location \o <<":">> \o s.value
      [] s.tag = "SceneId" -> STR_scene_id \o <<":">> \o s.value

\* str::split(c), collected: the pieces between the occurrences of c; one piece
\* (the whole string, even when empty) when c does not occur.
RECURSIVE Split(_, _)
Split(s, c) ==
    IF \A i \in 1..Len(s) : s[i] # c
    THEN <<s>>
    ELSE LET i == CHOOSE k \in 1..Len(s) :
                      s[k] = c /\ \A j \in 1..(k - 1) : s[j] # c
         IN <<SubSeq(s, 1, i - 1)>> \o Split(SubSeq(s, i + 1, Len(s)), c)

\* str::trim: leading and trailing whitespace removed.
RECURSIVE Trim(_)
Trim(s) ==
    IF s = <<>> THEN s
    ELSE IF s[1] \in Whitespace THEN Trim(SubSeq(s, 2, Len(s)))
    ELSE IF s[Len(s)] \in Whitespace THEN Trim(SubSeq(s, 1, Len(s) - 1))
    ELSE s

\* impl FromStr for Selector
FromStr(s) ==
    IF s = STR_all THEN ParseOk(All)
    ELSE LET parts == Split(s, ":") IN
         IF Len(parts) >= 1
         THEN LET label == parts[1] IN
              IF Len(parts) >= 2
              THEN LET value == Trim(parts[2]) IN
                   IF label = STR_label THEN ParseOk(Selector("Label", value))
                   ELSE IF label = STR_id THEN ParseOk(Selector("Id", value))
                   ELSE IF label = STR_group_id THEN ParseOk(Selector("GroupId", value))
                   ELSE IF label = STR_group THEN ParseOk(Selector("Group", value))
                   ELSE IF label = STR_location_id
                   THEN ParseOk(Selector("LocationId", value))
                   ELSE IF label = STR_location THEN ParseOk(Selector("Location", value))
                   ELSE IF label = STR_scene_id THEN ParseOk(Selector("SceneId", value))
                   ELSE ParseErr("UnknownLabel")
              ELSE ParseErr("NoValue")
         ELSE ParseErr("NoLabel")

---------------------------------------------------------------------------
(* Decorated selectors: Zones, Zoned and Random<T>. *)

\* The longest explicit list of zones tried.
MaxZones == 2
\* Range endpoints tried: 0..SmallZone and the two largest u8 values.
SmallZone == 3
\* The last zone of an open range, `from.start..=255`.
LastZone == 255
ZoneEnds == (0..SmallZone) \cup {LastZone - 1, LastZone}

\* The arguments of Selector::zoned: ranges of u8, one u8, or a Vec<u8>.
ZoneArg(shape, a, b, list) == [shape |-> shape, a |-> a, b |-> b, list |-> list]
NoZoneArg == ZoneArg("none", 0, 0, <<>>)
ZoneLists == UNION {[1..k -> {1, 2, LastZone}] : k \in 0..MaxZones}
ZoneArgs ==
    {ZoneArg(sh, a, b, <<>>) : sh \in {"Range", "RangeInclusive"},
                               a \in ZoneEnds, b \in ZoneEnds}
    \cup {ZoneArg("RangeFrom", a, 0, <<>>) : a \in ZoneEnds}
    \cup {ZoneArg(sh, 0, b, <<>>) : sh \in {"RangeTo", "RangeToInclusive"},
                                    b \in ZoneEnds}
    \cup {ZoneArg("Single", a, 0, <<>>) : a \in ZoneEnds}
    \cup {ZoneArg("Vec", 0, 0, l) : l \in ZoneLists}

\* (a..=b).collect::<Vec<u8>>(): empty when b < a.
Collect(a, b) == IF b < a THEN <<>> ELSE [i \in 1..(b - a + 1) |-> a + i - 1]

\* impl From<...> for Zones: the list each argument is turned into.
ZonesFrom(arg) ==
    CASE arg.shape = "Range" -> Collect(arg.a, arg.b - 1)
      [] arg.shape = "RangeInclusive" -> Collect(arg.a, arg.b)
      [] arg.shape = "RangeFrom" -> Collect(arg.a, LastZone)
      [] arg.shape = "RangeTo" -> Collect(0, arg.b - 1)
      [] arg.shape = "RangeToInclusive" -> Collect(0, arg.b)
      [] arg.shape = "Single" -> <<arg.a>>
      [] arg.shape = "Vec" -> arg.list

\* impl fmt::Display for u8: decimal digits, no padding.
DecimalDigits == <<"0", "1", "2", "3", "4", "5", "6", "7", "8", "9">>
RECURSIVE Decimal(_)
Decimal(n) ==
    IF n < 10 THEN <<DecimalDigits[n + 1]>>
    ELSE Decimal(n \div 10) \o <<DecimalDigits[(n % 10) + 1]>>

\* A selector with its decorations: Selector, Zoned, Random<Selector> or
\* Random<Zoned>.
Decorated(s, zoned, zoning, random) ==
    [selector |-> s, zoned |-> zoned, zoning |-> zoning, random |-> random]
NoDecorated == Decorated(NoSelector, FALSE, <<>>, FALSE)

\* The loop of Zoned's Display written right to left.
RECURSIVE WriteZones_reversed(_)
WriteZones_reversed(list) ==
    IF list = <<>> THEN <<>>
    ELSE IF Len(list) = 1 THEN <<"|">> \o Decimal(list[1])
    ELSE LET half == Len(list) \div 2 IN
         WriteZones_reversed(SubSeq(list, half + 1, Len(list)))
             \o WriteZones_reversed(SubSeq(list, 1, half))

\* The loop of Zoned's Display: write!(f, "|{}", z) for each z of the list,
\* first to last (what the first half writes, then what the second half does).
RECURSIVE WriteZones(_)
WriteZones(list) ==
    IF list = <<>> THEN <<>>
    ELSE IF Len(list) = 1 THEN <<"|">> \o Decimal(list[1])
    ELSE LET half == Len(list) \div 2 IN
         WriteZones(SubSeq(list, 1, half)) \o WriteZones(SubSeq(list, half + 1, Len(list)))

\* impl fmt::Display for Zoned
RenderZoned(s, zoning) == Render(s) \o WriteZones(zoning)

STR_random == <<":", "r", "a", "n", "d", "o", "m">>
\* impl fmt::Display for Random<T>, on the rendering of the inner selector
RenderRandom(inner) == inner \o STR_random

RenderDecorated(d) ==
    LET inner == IF d.zoned THEN RenderZoned(d.selector, d.zoning)
                 ELSE Render(d.selector)
    IN IF d.random THEN RenderRandom(inner) ELSE inner

STR_Living_Room == <<"L", "i", "v", "i", "n", "g", " ", "R", "o", "o", "m">>
\* The selectors that are decorated.
BaseSelectors ==
    {All} \cup {Selector(t, v) : t \in PayloadTags, v \in {STR_Living_Room, <<"a">>}}

---------------------------------------------------------------------------
(* Colors: the values of enum Color and Color::validate. *)

\* How far around each limit the numeric colors are tried.
Margin == 2
\* The longest body of an RgbStr tried (the characters after an optional '#').
MaxBody == 7

MaxHue == 360
MinKelvin == 1500
MaxKelvin == 9000
MaxU16 == 65535
MaxU8 == 255

\* f32: a finite decimal num/den (den a power of ten), NaN, or an infinity.
Float(class, num, den) == [class |-> class, num |-> num, den |-> den]
Num(num, den) == Float("num", num, den)
NaN == Float("nan", 0, 1)
PosInf == Float("inf", 0, 1)
NegInf == Float("-inf", 0, 1)
NoFloat == Float("none", 0, 1)
F_0_0 == Num(0, 1)
F_1_0 == Num(1, 1)

\* f32's `<`: false whenever an operand is NaN.
FloatLt(x, y) ==
    CASE x.class = "nan" \/ y.class = "nan" -> FALSE
      [] x.class = "inf" -> FALSE
      [] y.class = "-inf" -> FALSE
      [] x.class = "-inf" -> TRUE
      [] y.class = "inf" -> TRUE
      [] OTHER -> x.num * y.den < y.num * x.den
\* f32's `>`
FloatGt(x, y) == FloatLt(y, x)

NamedColors == {"Red", "Orange", "Yellow", "Green", "Blue", "Purple", "Pink", "White"}
\* enum Color: the payload sits in the field of its type.
Color(tag, n, f, rgb, s) == [tag |-> tag, n |-> n, f |-> f, rgb |-> rgb, s |-> s]
Named(tag) == Color(tag, 0, NoFloat, <<>>, <<>>)
Hue(h) == Color("Hue", h, NoFloat, <<>>, <<>>)
Saturation(v) == Color("Saturation", 0, v, <<>>, <<>>)
Brightness(v) == Color("Brightness", 0, v, <<>>, <<>>)
Kelvin(k) == Color("Kelvin", k, NoFloat, <<>>, <<>>)
Rgb(rgb) == Color("Rgb", 0, NoFloat, rgb, <<>>)
RgbStr(s) == Color("RgbStr", 0, NoFloat, <<>>, s)
Custom(s) == Color("Custom", 0, NoFloat, <<>>, s)
NoColor == Color("none", 0, NoFloat, <<>>, <<>>)

\* The characters of RgbStr bodies: a hex digit, an ASCII letter that is not a
\* hex digit, and a letter outside ASCII.
BodyAlphabet == {"1", "z", "é"}
HexDigits == {"0", "1", "2", "3", "4", "5", "6", "7", "8", "9",
              "a", "b", "c", "d", "e", "f", "A", "B", "C", "D", "E", "F"}
\* The UTF-8 length of a character: 'é' (U+00E9) takes two bytes.
Utf8Len(c) == IF c = "é" THEN 2 ELSE 1
\* str::len as a count of characters.
StrLen_chars(s) == Len(s)
\* str::len: the length in bytes.
RECURSIVE StrLen(_)
StrLen(s) == IF s = <<>> THEN 0 ELSE Utf8Len(Head(s)) + StrLen(Tail(s))
\* str::starts_with('#')
\* No string taken to start with '#'.
StartsWithHash_never(s) == s # s

StartsWithHash(s) == s # <<>> /\ s[1] = "#"

\* Result<(), Error> of Color::validate, `Error` of state.rs.
Valid == [ok |-> TRUE, err |-> "", n |-> 0, f |-> NoFloat, hash |-> FALSE, s |-> <<>>]
Invalid(err, n, f, hash, s) ==
    [ok |-> FALSE, err |-> err, n |-> n, f |-> f, hash |-> hash, s |-> s]
NotValidated == Invalid("none", 0, NoFloat, FALSE, <<>>)

\* Color::validate
validate(c) ==
    CASE c.tag \in NamedColors \cup {"Rgb", "Custom"} -> Valid
      [] c.tag = "Hue" ->
            IF c.n > MaxHue THEN Invalid("Hue", c.n, NoFloat, FALSE, <<>>) ELSE Valid
      [] c.tag = "Saturation" ->
            IF FloatGt(c.f, F_1_0) THEN Invalid("SaturationHigh", 0, c.f, FALSE, <<>>)
            ELSE IF FloatLt(c.f, F_0_0) THEN Invalid("SaturationLow", 0, c.f, FALSE, <<>>)
            ELSE Valid
      [] c.tag = "Brightness" ->
            IF FloatGt(c.f, F_1_0) THEN Invalid("BrightnessHigh", 0, c.f, FALSE, <<>>)
            ELSE IF FloatLt(c.f, F_0_0) THEN Invalid("BrightnessLow", 0, c.f, FALSE, <<>>)
            ELSE Valid
      [] c.tag = "Kelvin" ->
            IF c.n < MinKelvin THEN Invalid("KelvinLow", c.n, NoFloat, FALSE, <<>>)
            ELSE IF c.n > MaxKelvin THEN Invalid("KelvinHigh", c.n, NoFloat, FALSE, <<>>)
            ELSE Valid
      [] c.tag = "RgbStr" ->
            IF StartsWithHash(c.s)
            THEN IF StrLen(c.s) > 7 THEN Invalid("RgbStrLong", 0, NoFloat, TRUE, c.s)
                 ELSE IF StrLen(c.s) < 7 THEN Invalid("RgbStrShort", 0, NoFloat, TRUE, c.s)
                 ELSE Valid
            ELSE IF StrLen(c.s) > 6 THEN Invalid("RgbStrLong", 0, NoFloat, FALSE, c.s)
            ELSE IF StrLen(c.s) < 6 THEN Invalid("RgbStrShort", 0, NoFloat, FALSE, c.s)
            ELSE Valid

\* The colors handed to validate.
Around(limit) == {n \in (limit - Margin)..(limit + Margin) : n >= 0 /\ n <= MaxU16}
U16Values == Around(0) \cup Around(MaxHue) \cup Around(MinKelvin) \cup Around(MaxKelvin)
                \cup Around(MaxU16)
FloatValues ==
    {Num(t, 10) : t \in (0 - Margin)..(10 + Margin)} \cup {NaN, PosInf, NegInf}
Bodies == UNION {[1..k -> BodyAlphabet] : k \in 0..MaxBody}
RgbStrings == Bodies \cup {<<"#">> \o b : b \in Bodies}
ValidateInputs ==
    {Named(t) : t \in NamedColors}
    \cup {Hue(h) : h \in U16Values}
    \cup {Kelvin(k) : k \in U16Values}
    \cup {Saturation(v) : v \in FloatValues}
    \cup {Brightness(v) : v \in FloatValues}
    \cup {Rgb(<<r, g, b>>) : r \in {0, MaxU8}, g \in {0, MaxU8}, b \in {0, MaxU8}}
    \cup {RgbStr(s) : s \in RgbStrings}
    \cup {Custom(s) : s \in {<<>>, <<"z">>}}

---------------------------------------------------------------------------
(* Colors: impl FromStr for Color. *)

\* The most pieces an input's remainder is put together from.
\* The calls made on one builder before it is handed over.
MaxCalls == 3
MaxPieces == 4
STR_red == <<"r", "e", "d">>
STR_orange == <<"o", "r", "a", "n", "g", "e">>
STR_yellow == <<"y", "e", "l", "l", "o", "w">>
STR_green == <<"g", "r", "e", "e", "n">>
STR_blue == <<"b", "l", "u", "e">>
STR_purple == <<"p", "u", "r", "p", "l", "e">>
STR_pink == <<"p", "i", "n", "k">>
STR_white == <<"w", "h", "i", "t", "e">>
STR_hue_ == <<"h", "u", "e", ":">>
STR_saturation_ == <<"s", "a", "t", "u", "r", "a", "t", "i", "o", "n", ":">>
STR_brightness_ == <<"b", "r", "i", "g", "h", "t", "n", "e", "s", "s", ":">>
STR_kelvin_ == <<"k", "e", "l", "v", "i", "n", ":">>
STR_rgb_ == <<"r", "g", "b", ":">>
STR_NaN == <<"N", "a", "N">>
STR_inf == <<"i", "n", "f">>

\* str::starts_with(p)
StartsWith(s, p) == Len(s) >= Len(p) /\ SubSeq(s, 1, Len(p)) = p

\* The value of a string of decimal digits.
RECURSIVE DecValue(_)
DecValue(ds) ==
    IF ds = <<>> THEN 0
    ELSE LET d == CHOOSE i \in 0..9 : DecimalDigits[i + 1] = ds[Len(ds)]
         IN DecValue(SubSeq(ds, 1, Len(ds) - 1)) * 10 + d

IsDigits(s) == \A i \in 1..Len(s) : \E d \in 1..10 : DecimalDigits[d] = s[i]

\* Result<uN, ParseIntError>
IntOk(v) == [ok |-> TRUE, value |-> v]
IntErr == [ok |-> FALSE, value |-> 0]

\* str::parse::<u16>() and str::parse::<u8>(): an optional '+', then one or
\* more decimal digits, and a value of at most max.
ParseUnsigned(s, max) ==
    LET digits == IF s # <<>> /\ s[1] = "+" THEN Tail(s) ELSE s IN
    IF digits = <<>> \/ ~IsDigits(digits) THEN IntErr
    ELSE IF DecValue(digits) > max THEN IntErr
    ELSE IntOk(DecValue(digits))

\* A decimal num/den without trailing zeros in the fraction.
RECURSIVE Reduce(_, _)
Reduce(num, den) ==
    IF den > 1 /\ num % 10 = 0 THEN Reduce(num \div 10, den \div 10)
    ELSE Num(num, den)

RECURSIVE Pow10(_)
Pow10(k) == IF k = 0 THEN 1 ELSE 10 * Pow10(k - 1)

\* Result<f32, ParseFloatError>
FloatOk(v) == [ok |-> TRUE, value |-> v]
FloatErr == [ok |-> FALSE, value |-> NoFloat]

\* str::parse::<f32>() on literals without an exponent: an optional sign, then
\* "inf", "NaN", or digits with at most one '.' and at least one digit.
ParseF32(s) ==
    LET signed == s # <<>> /\ s[1] \in {"+", "-"}
        neg == s # <<>> /\ s[1] = "-"
        body == IF signed THEN Tail(s) ELSE s
        dots == {i \in 1..Len(body) : body[i] = "."}
    IN
    IF body = STR_inf THEN FloatOk(IF neg THEN NegInf ELSE PosInf)
    ELSE IF body = STR_NaN THEN FloatOk(NaN)
    ELSE IF Cardinality(dots) > 1 THEN FloatErr
    ELSE LET dot == IF dots = {} THEN Len(body) + 1 ELSE CHOOSE i \in dots : TRUE
             int == SubSeq(body, 1, dot - 1)
             frac == SubSeq(body, dot + 1, Len(body))
         IN IF ~IsDigits(int) \/ ~IsDigits(frac) \/ int \o frac = <<>> THEN FloatErr
            ELSE LET m == DecValue(int \o frac) IN
                 FloatOk(Reduce(IF neg THEN 0 - m ELSE m, Pow10(Len(frac))))

\* Result<Color, ColorParseError>
ColorOk(c) == [ok |-> TRUE, color |-> c, err |-> ""]
ColorErr(e) == [ok |-> FALSE, color |-> NoColor, err |-> e]
NoColorResult == [ok |-> FALSE, color |-> NoColor, err |-> "none"]

\* x.trim().is_empty(), never true
IsBlank_never(x) == FALSE

\* x.trim().is_empty()
IsBlank(x) == Trim(x) = <<>>

\* impl FromStr for Color
ColorFromStr(s) ==
    IF s = STR_red THEN ColorOk(Named("Red"))
    ELSE IF s = STR_orange THEN ColorOk(Named("Orange"))
    ELSE IF s = STR_yellow THEN ColorOk(Named("Yellow"))
    ELSE IF s = STR_green THEN ColorOk(Named("Green"))
    ELSE IF s = STR_blue THEN ColorOk(Named("Blue"))
    ELSE IF s = STR_purple THEN ColorOk(Named("Purple"))
    ELSE IF s = STR_pink THEN ColorOk(Named("Pink"))
    ELSE IF s = STR_white THEN ColorOk(Named("White"))
    ELSE IF StartsWith(s, STR_hue_) THEN
        LET parts == Split(s, ":") IN
        IF Len(parts) >= 2
        THEN LET spec == parts[2] IN
             IF IsBlank(spec) THEN ColorErr("NoHue")
             ELSE LET v == ParseUnsigned(spec, MaxU16) IN
                  IF v.ok THEN ColorOk(Hue(v.value)) ELSE ColorErr("NonNumericHue")
        ELSE ColorErr("NoHue")
    ELSE IF StartsWith(s, STR_saturation_) THEN
        LET parts == Split(s, ":") IN
        IF Len(parts) >= 2
        THEN LET spec == parts[2] IN
             IF IsBlank(spec) THEN ColorErr("NoSaturation")
             ELSE LET v == ParseF32(spec) IN
                  IF v.ok THEN ColorOk(Saturation(v.value)) ELSE ColorErr("NonNumericSaturation")
        ELSE ColorErr("NoSaturation")
    ELSE IF StartsWith(s, STR_brightness_) THEN
        LET parts == Split(s, ":") IN
        IF Len(parts) >= 2
        THEN LET spec == parts[2] IN
             IF IsBlank(spec) THEN ColorErr("NoBrightness")
             ELSE LET v == ParseF32(spec) IN
                  IF v.ok THEN ColorOk(Brightness(v.value)) ELSE ColorErr("NonNumericBrightness")
        ELSE ColorErr("NoBrightness")
    ELSE IF StartsWith(s, STR_kelvin_) THEN
        LET parts == Split(s, ":") IN
        IF Len(parts) >= 2
        THEN LET spec == parts[2] IN
             IF IsBlank(spec) THEN ColorErr("NoKelvin")
             ELSE LET v == ParseUnsigned(spec, MaxU16) IN
                  IF v.ok THEN ColorOk(Kelvin(v.value)) ELSE ColorErr("NonNumericKelvin")
        ELSE ColorErr("NoKelvin")
    ELSE IF StartsWith(s, STR_rgb_) THEN
        LET split == Split(s, ":") IN
        IF Len(split) >= 2
        THEN LET parts == Split(split[2], ",") IN
             IF Len(parts) >= 1
             THEN LET r == parts[1] IN
                  IF IsBlank(r) THEN ColorErr("NoRed")
                  ELSE IF Len(parts) >= 2
                  THEN LET g == parts[2] IN
                       IF IsBlank(g) THEN ColorErr("NoGreen")
                       ELSE IF Len(parts) >= 3
                       THEN LET b == parts[3]
                                rv == ParseUnsigned(r, MaxU8)
                                gv == ParseUnsigned(g, MaxU8)
                                bv == ParseUnsigned(b, MaxU8)
                            IN
                            IF IsBlank(b) THEN ColorErr("NoBlue")
                            ELSE IF rv.ok
                            THEN IF gv.ok
                                 THEN IF bv.ok
                                      THEN ColorOk(Rgb(<<rv.value, gv.value, bv.value>>))
                                      ELSE ColorErr("NonNumericBlue")
                                 ELSE ColorErr("NonNumericGreen")
                            ELSE ColorErr("NonNumericRed")
                       ELSE ColorErr("NoBlue")
                  ELSE ColorErr("NoGreen")
             ELSE ColorErr("NoRed")
        ELSE ColorErr("NoRed")
    ELSE IF StartsWithHash(s)
    THEN IF StrLen(s) < 7 THEN ColorErr("ShortString")
         ELSE IF StrLen(s) = 7 THEN ColorOk(RgbStr(s))
         ELSE ColorErr("LongString")
    ELSE IF StrLen(s) < 6 THEN ColorErr("ShortString")
    ELSE IF StrLen(s) = 6 THEN ColorOk(RgbStr(s))
    ELSE ColorErr("LongString")

\* The strings handed to the color parser: a prefix, then pieces joined by ','
\* or ':'.
Prefixes == {STR_hue_, STR_saturation_, STR_brightness_, STR_kelvin_, STR_rgb_}
Pieces == {<<>>, <<" ">>, <<"0">>, <<"1", "2">>, <<"2", "5", "6">>,
           <<"0", ".", "5">>, <<"j">>}
Separators == {",", ":"}
\* The pieces after "rgb:": nothing, integers in and out of range, a letter.
RgbPieces == {<<>>, <<"0">>, <<"1", "2">>, <<"2", "5", "6">>, <<"j">>}
RECURSIVE Remainders(_, _)
Remainders(pieces, k) ==
    IF k = 1 THEN pieces
    ELSE LET shorter == Remainders(pieces, k - 1) IN
         shorter \cup {r \o <<c>> \o p : r \in shorter, c \in Separators, p \in pieces}
\* The eight keywords.
Keywords == {STR_red, STR_orange, STR_yellow, STR_green, STR_blue, STR_purple,
             STR_pink, STR_white}

\* "rgb:" is followed by up to MaxPieces pieces, the one-number prefixes by
\* two pieces less or by a float that is no number; then the keywords and the
\* strings read as hex literals.
ColorInputs ==
    {STR_rgb_ \o r : r \in Remainders(RgbPieces, MaxPieces)}
    \cup {p \o r : p \in Prefixes \ {STR_rgb_}, r \in Remainders(Pieces, MaxPieces - 2)}
    \cup {p \o f : p \in {STR_saturation_, STR_brightness_},
                    f \in {STR_NaN, STR_inf, <<"-">> \o STR_inf, <<"-", "0", ".", "5">>}}
    \cup Keywords
    \cup RgbStrings

\* f32's Display: the shortest decimal that reads back as the same value.
FloatDisplay(v) ==
    IF v.class = "nan" THEN STR_NaN
    ELSE IF v.class = "inf" THEN STR_inf
    ELSE IF v.class = "-inf" THEN <<"-">> \o STR_inf
    ELSE LET a == IF v.num < 0 THEN 0 - v.num ELSE v.num
             sign == IF v.num < 0 THEN <<"-">> ELSE <<>>
             frac == Decimal(a % v.den)
             width == Len(Decimal(v.den)) - 1
             zeros == [i \in 1..(width - Len(frac)) |-> "0"]
         IN IF v.den = 1 THEN sign \o Decimal(a)
            ELSE sign \o Decimal(a \div v.den) \o <<".">> \o zeros \o frac

\* The keyword of a named color.
KeywordOf(tag) ==
    CASE tag = "Red" -> STR_red
      [] tag = "Orange" -> STR_orange
      [] tag = "Yellow" -> STR_yellow
      [] tag = "Green" -> STR_green
      [] tag = "Blue" -> STR_blue
      [] tag = "Purple" -> STR_purple
      [] tag = "Pink" -> STR_pink
      [] tag = "White" -> STR_white

\* impl fmt::Display for Color
ColorDisplay(c) ==
    IF c.tag \in NamedColors THEN KeywordOf(c.tag)
    ELSE IF c.tag = "Hue" THEN STR_hue_ \o Decimal(c.n)
    ELSE IF c.tag = "Saturation" THEN STR_saturation_ \o FloatDisplay(c.f)
    ELSE IF c.tag = "Brightness" THEN STR_brightness_ \o FloatDisplay(c.f)
    ELSE IF c.tag = "Kelvin" THEN STR_kelvin_ \o Decimal(c.n)
    ELSE IF c.tag = "Rgb"
    THEN STR_rgb_ \o Decimal(c.rgb[1]) \o <<",">> \o Decimal(c.rgb[2])
                  \o <<",">> \o Decimal(c.rgb[3])
    ELSE IF c.tag = "RgbStr"
    THEN IF StartsWithHash(c.s) THEN c.s ELSE <<"#">> \o c.s
    ELSE c.s

\* f32's ==: NaN equals nothing.
FloatEq(x, y) == x.class # "nan" /\ y.class # "nan" /\ x = y

\* Color's derived PartialEq.
ColorEq(a, b) ==
    /\ a.tag = b.tag
    /\ a.n = b.n /\ a.rgb = b.rgb /\ a.s = b.s
    /\ a.tag \in {"Saturation", "Brightness"} => FloatEq(a.f, b.f)

---------------------------------------------------------------------------
(* The builders and Request::send. *)

\* AsRequest::attempts: self.attempts.unwrap_or_else(unity)
Budget == IF attempts = None THEN unity ELSE attempts[1]

\* The loop written `for _ in 0..self.attempts.get()`.
LoopIterations_from_zero(n) == n

\* `for _ in 1..self.attempts.get()`: how many times the loop body runs.
LoopIterations(n) == n - 1

\* The sleep cut to nothing.
SleepDuration_none(t, elapsed) == t - t

\* `t - Instant::now()`, with t the deadline and `elapsed` seconds gone since the
\* deadline was computed.
SleepDuration(t, elapsed) == t - elapsed

\* `Ok(r) => return Ok(r)` written as one more attempt.
LoopOk_retries ==
    /\ phase = "sending" /\ pc = "loop"
    /\ stack # <<>> /\ stack[Len(stack)] > 0
    /\ result.kind = "Ok"
    /\ stack' = Append([stack EXCEPT ![Len(stack)] = stack[Len(stack)] - 1], 0)
    /\ pc' = "request"
    /\ result' = NoOutcome
    /\ UNCHANGED <<attempts, phase, abortedBy, requests, lastSleep, waited, last, only500>>
    /\ UNCHANGED classifyVars /\ UNCHANGED selectorVars /\ UNCHANGED zoneVars
    /\ UNCHANGED validateVars /\ UNCHANGED parseVars
    /\ UNCHANGED builderVars
    /\ UNCHANGED threadVars

\* The status codes the server of the engine's model answers with.
SendStatuses == {200, 401, 404, 418, 429, 500, 503}

Top == stack[Len(stack)]

\* The innermost frame returns r: to its caller's `result = self.send()`, or, from
\* the outermost frame, to the caller of send.
Return(r, frames) ==
    /\ result' = r
    /\ stack' = SubSeq(frames, 1, Len(frames) - 1)
    /\ IF Len(frames) = 1
       THEN phase' = "returned" /\ pc' = "loop"
       ELSE phase' = phase /\ pc' = "loop"
    /\ abortedBy' = abortedBy

\* `result = self.send()`: send calls itself on the same request, so with the
\* same attempts. A thread's stack holds StackLimit frames; one more overflows it.
Recurse(frames) ==
    IF Len(frames) < StackLimit
    THEN /\ stack' = Append(frames, LoopIterations(Budget))
         /\ pc' = "request"
         /\ phase' = phase
         /\ abortedBy' = abortedBy
         /\ result' = NoOutcome
    ELSE /\ stack' = frames
         /\ pc' = pc
         /\ phase' = "aborted"
         /\ abortedBy' = "stack"
         /\ result' = NoOutcome

\* Retry::retry: self.retries(unity())
Retry ==
    /\ phase = "building"
    /\ attempts' = Some(unity)
    /\ UNCHANGED <<phase, abortedBy, stack, pc, result, requests,
                   lastSleep, waited, last, only500>>
    /\ UNCHANGED classifyVars /\ UNCHANGED selectorVars /\ UNCHANGED zoneVars
    /\ UNCHANGED validateVars /\ UNCHANGED parseVars
    /\ UNCHANGED builderVars
    /\ UNCHANGED threadVars

\* Retry::retries(n): self.set_attempts(n)
Retries(n) ==
    /\ phase = "building"
    /\ attempts' = Some(n)
    /\ UNCHANGED <<phase, abortedBy, stack, pc, result, requests,
                   lastSleep, waited, last, only500>>
    /\ UNCHANGED classifyVars /\ UNCHANGED selectorVars /\ UNCHANGED zoneVars
    /\ UNCHANGED validateVars /\ UNCHANGED parseVars
    /\ UNCHANGED builderVars
    /\ UNCHANGED threadVars

\* Send::send on a builder: builds the Request and calls Request::send.
Send ==
    /\ phase = "building"
    /\ phase' = "sending"
    /\ stack' = <<LoopIterations(Budget)>>
    /\ pc' = "request"
    /\ UNCHANGED <<attempts, abortedBy, result, requests, lastSleep, waited, last, only500>>
    /\ UNCHANGED classifyVars /\ UNCHANGED selectorVars /\ UNCHANGED zoneVars
    /\ UNCHANGED validateVars /\ UNCHANGED parseVars
    /\ UNCHANGED builderVars
    /\ UNCHANGED threadVars

\* `client.request(..).send()?` fails: `?` returns the converted error from this
\* frame at once.
TransportFailure(kind) ==
    /\ phase = "sending" /\ pc = "request"
    /\ requests' = requests + 1
    /\ LET e == FromReqwestError(ReqwestError(kind, None, None)) IN
       /\ last' = e
       /\ Return(e, stack)
    /\ only500' = FALSE
    /\ waited' = 0
    /\ UNCHANGED <<attempts, lastSleep>>
    /\ UNCHANGED classifyVars /\ UNCHANGED selectorVars /\ UNCHANGED zoneVars
    /\ UNCHANGED validateVars /\ UNCHANGED parseVars
    /\ UNCHANGED builderVars
    /\ UNCHANGED threadVars

\* `client.request(..).send()?` returns a response: the reset header is read
\* and the response classified.
Response(status, hdr, unix) ==
    /\ phase = "sending" /\ pc = "request"
    /\ requests' = requests + 1
    /\ only500' = (only500 /\ status = 500)
    /\ LET r == ResetDeadline(hdr, unix) IN
       IF r.panic
       THEN /\ phase' = "aborted"
            /\ abortedBy' = "underflow"
            /\ UNCHANGED <<stack, pc, result, last>>
       ELSE /\ result' = Classify(status, r.reset)
            /\ last' = Classify(status, r.reset)
            /\ pc' = "loop"
            /\ UNCHANGED <<phase, abortedBy, stack>>
    /\ waited' = 0
    /\ UNCHANGED <<attempts, lastSleep>>
    /\ UNCHANGED classifyVars /\ UNCHANGED selectorVars /\ UNCHANGED zoneVars
    /\ UNCHANGED validateVars /\ UNCHANGED parseVars
    /\ UNCHANGED builderVars
    /\ UNCHANGED threadVars

\* The loop has no iteration left: `result` is returned.
LoopExhausted ==
    /\ phase = "sending" /\ pc = "loop"
    /\ Top = 0
    /\ Return(result, stack)
    /\ UNCHANGED <<attempts, requests, lastSleep, waited, last, only500>>
    /\ UNCHANGED classifyVars /\ UNCHANGED selectorVars /\ UNCHANGED zoneVars
    /\ UNCHANGED validateVars /\ UNCHANGED parseVars
    /\ UNCHANGED builderVars
    /\ UNCHANGED threadVars

\* `Ok(r) => return Ok(r)`
LoopOk ==
    /\ phase = "sending" /\ pc = "loop"
    /\ Top > 0
    /\ result.kind = "Ok"
    /\ Return(result, stack)
    /\ UNCHANGED <<attempts, requests, lastSleep, waited, last, only500>>
    /\ UNCHANGED classifyVars /\ UNCHANGED selectorVars /\ UNCHANGED zoneVars
    /\ UNCHANGED validateVars /\ UNCHANGED parseVars
    /\ UNCHANGED builderVars
    /\ UNCHANGED threadVars

\* `if let Error::RateLimited(Some(t)) = e { sleep(t - Instant::now()) }`, then
\* `result = self.send()`. `elapsed` seconds have passed since the deadline was
\* computed.
LoopSleep(elapsed) ==
    /\ phase = "sending" /\ pc = "loop"
    /\ Top > 0
    /\ result.kind = "RateLimited" /\ result.reset # None
    /\ result.reset[1] >= elapsed
    /\ lastSleep' = Some(SleepDuration(result.reset[1], elapsed))
    /\ waited' = elapsed + SleepDuration(result.reset[1], elapsed)
    /\ Recurse([stack EXCEPT ![Len(stack)] = Top - 1])
    /\ UNCHANGED <<attempts, requests, last, only500>>
    /\ UNCHANGED classifyVars /\ UNCHANGED selectorVars /\ UNCHANGED zoneVars
    /\ UNCHANGED validateVars /\ UNCHANGED parseVars
    /\ UNCHANGED builderVars
    /\ UNCHANGED threadVars

\* The same with the deadline already passed: `t - Instant::now()` is zero with
\* a standard library that saturates, and the sleep returns at once.
LoopSleepPast(elapsed) ==
    /\ phase = "sending" /\ pc = "loop"
    /\ Top > 0
    /\ result.kind = "RateLimited" /\ result.reset # None
    /\ result.reset[1] < elapsed
    /\ lastSleep' = Some(0)
    /\ waited' = elapsed
    /\ Recurse([stack EXCEPT ![Len(stack)] = Top - 1])
    /\ UNCHANGED <<attempts, requests, last, only500>>
    /\ UNCHANGED classifyVars /\ UNCHANGED selectorVars /\ UNCHANGED zoneVars
    /\ UNCHANGED validateVars /\ UNCHANGED parseVars
    /\ UNCHANGED builderVars
    /\ UNCHANGED threadVars

\* The same with a standard library whose `Instant - Instant` panics when the
\* right-hand side is the later one.
LoopSleepPanic(elapsed) ==
    /\ phase = "sending" /\ pc = "loop"
    /\ Top > 0
    /\ result.kind = "RateLimited" /\ result.reset # None
    /\ result.reset[1] < elapsed
    /\ phase' = "aborted"
    /\ abortedBy' = "sleep"
    /\ stack' = [stack EXCEPT ![Len(stack)] = Top - 1]
    /\ UNCHANGED <<attempts, pc, result, requests, lastSleep, waited, last, only500>>
    /\ UNCHANGED classifyVars /\ UNCHANGED selectorVars /\ UNCHANGED zoneVars
    /\ UNCHANGED validateVars /\ UNCHANGED parseVars
    /\ UNCHANGED builderVars
    /\ UNCHANGED threadVars

\* `else if e.is_client_error() { return Err(e) }`
LoopClientError ==
    /\ phase = "sending" /\ pc = "loop"
    /\ Top > 0
    /\ result.kind # "Ok"
    /\ ~(result.kind = "RateLimited" /\ result.reset # None)
    /\ is_client_error(result)
    /\ Return(result, stack)
    /\ UNCHANGED <<attempts, requests, lastSleep, waited, last, only500>>
    /\ UNCHANGED classifyVars /\ UNCHANGED selectorVars /\ UNCHANGED zoneVars
    /\ UNCHANGED validateVars /\ UNCHANGED parseVars
    /\ UNCHANGED builderVars
    /\ UNCHANGED threadVars

\* Any other error: `result = self.send()`
LoopRetry ==
    /\ phase = "sending" /\ pc = "loop"
    /\ Top > 0
    /\ result.kind # "Ok"
    /\ ~(result.kind = "RateLimited" /\ result.reset # None)
    /\ ~is_client_error(result)
    /\ Recurse([stack EXCEPT ![Len(stack)] = Top - 1])
    /\ UNCHANGED <<attempts, requests, lastSleep, waited, last, only500>>
    /\ UNCHANGED classifyVars /\ UNCHANGED selectorVars /\ UNCHANGED zoneVars
    /\ UNCHANGED validateVars /\ UNCHANGED parseVars
    /\ UNCHANGED builderVars
    /\ UNCHANGED threadVars

ErrorIdle ==
    /\ eerr = NoOutcome /\ eclient = FALSE /\ estep = "idle"

ClassifyIdle ==
    /\ cstatus = 200 /\ cheader = NoHeader /\ cunix = None
    /\ cout = NoOutcome /\ cstep = "idle"
    /\ ErrorIdle

SelectorIdle ==
    /\ sel = NoSelector /\ text = <<>> /\ parsed = NotParsed /\ sstep = "idle"

ZoneIdle ==
    /\ zval = NoDecorated /\ zarg = NoZoneArg /\ ztext = <<>> /\ zstep = "idle"

ValidateIdle ==
    /\ vcolor = NoColor /\ vout = NotValidated /\ vstep = "idle"

\* State::default(), StateChange::default(), SetStatePayload::default() with
\* `attempts: None`: every field absent. One record holds the fields of all
\* four builders; a builder never touches the fields it does not have.
BuilderFields == {"power", "color", "brightness", "duration", "infrared",
                  "fast", "hue", "saturation", "kelvin"}
NewBuilder ==
    [power |-> None, color |-> None, brightness |-> None, duration |-> None,
     infrared |-> None, fast |-> None, hue |-> None, saturation |-> None,
     kelvin |-> None, attempts |-> None]
Call(method, arg) == [method |-> method, arg |-> arg]
NoCall == Call("", None)
NoRequest == [body |-> {}, attempts |-> 0]

\* The threads that call send at the same time.
Threads == {1, 2}

\* One call of send on a thread: the attempts of its Request, the frames of
\* send with the loop iterations left in each, where the innermost frame
\* stands, its `result`, and what the call has done so far: the requests it
\* issued, the deadlines it waited for, the answers it got and the token it
\* sent.
Thread(n, ph, frames, at, res, reqs, waits, history, auth) ==
    [attempts |-> n, phase |-> ph, stack |-> frames, pc |-> at,
     result |-> res, requests |-> reqs, waits |-> waits,
     history |-> history, auth |-> auth]
NoThread == Thread(1, "idle", <<>>, "request", NoOutcome, 0, <<>>, <<>>, "")

ThreadIdle ==
    /\ threads = [i \in Threads |-> NoThread] /\ token = "" /\ learned = None

BuilderIdle ==
    /\ bkind = "" /\ builder = NewBuilder /\ bcall = NoCall /\ bcalled = {}
    /\ bcalls = 0 /\ brequest = NoRequest /\ bstep = "idle"

ParseIdle ==
    /\ ptext = <<>> /\ pout = NoColorResult /\ pstep = "idle"
    /\ rtext = <<>> /\ rout = NoColorResult

ColorIdle == ValidateIdle /\ ParseIdle

EngineInit ==
    /\ attempts = None
    /\ phase = "building"
    /\ abortedBy = ""
    /\ stack = <<>>
    /\ pc = "request"
    /\ result = NoOutcome
    /\ requests = 0
    /\ lastSleep = None
    /\ waited = 0
    /\ last = NoOutcome
    /\ only500 = TRUE

Init == EngineInit /\ BuilderIdle /\ ThreadIdle /\ ClassifyIdle /\ SelectorIdle /\ ZoneIdle /\ ColorIdle

Next ==
    \/ Retry
    \/ \E n \in 1..MaxAttempts : Retries(n)
    \/ Send
    \/ \E k \in TransportKinds : TransportFailure(k)
    \/ \E s \in SendStatuses, h \in Headers, u \in UnixTimes : Response(s, h, u)
    \/ LoopExhausted
    \/ LoopOk
    \/ \E e \in 0..MaxElapsed : LoopSleep(e)
    \/ \E e \in 0..MaxElapsed : LoopSleepPast(e)
    \/ \E e \in 0..MaxElapsed : LoopSleepPanic(e)
    \/ LoopClientError
    \/ LoopRetry

Spec == Init /\ [][Next]_vars

---------------------------------------------------------------------------
(* Claims about Request::send and the attempt budget. *)

ServerError500 == Outcome("Server", Some(500), None, None)

\* C1: with budget N and a server that answers every request with HTTP 500, one
\* call to send issues exactly N requests and returns the Server error of the
\* last one. (As claimed; the recursion of send refutes it.)
C1_Always500ExactlyBudget ==
    only500 =>
        /\ requests <= Budget
        /\ phase = "returned" => (requests = Budget /\ result = ServerError500)

\* C2: whatever the server answers, one call to send issues at most N requests.
\* (As claimed; the recursion of send refutes it.)
C2_AtMostBudgetRequests == requests <= Budget

\* The kinds of error the retry loop must return at once.
NonRetryableKinds == {"BadRequest", "BadAccessToken", "BadOAuthScope", "NotFound", "Client"}

\* C3: once an attempt is classified BadRequest, BadAccessToken, BadOAuthScope,
\* NotFound or Client, send issues no further request and does not sleep, and
\* what it returns is that error.
C3_ClientErrorStopsRetrying ==
    [][(phase = "sending" /\ last.kind \in NonRetryableKinds) =>
          /\ requests' = requests
          /\ lastSleep' = lastSleep
          /\ last' = last
          /\ phase' \in {"sending", "returned"}
          /\ phase' = "returned" => result' = last]_vars

\* A 401 on the first attempt of a call with budget >= 2 has been returned after
\* one request.
C3_Witness ==
    /\ phase = "returned"
    /\ Budget >= 2
    /\ requests = 1
    /\ result.kind = "BadAccessToken"

\* C4: a transport failure is retried while attempts remain: send does not
\* return an Http error with budget left. (As claimed; `?` refutes it.)
C4_TransportFailureRetried ==
    ~(phase = "returned" /\ result.kind = "Http" /\ requests < Budget)

\* C5: RateLimited(None) is retried while attempts remain: send does not return
\* it with budget left. (As claimed; is_client_error refutes it.)
C5_RateLimitedNoneRetried ==
    ~(phase = "returned" /\ result = RateLimited(None) /\ requests < Budget)

\* C6: after retry() (that is retries(1)) or retries(n), a send whose attempts all
\* fail with a server error has issued n + 1 requests: the first and n more.
\* (As claimed; set_attempts(n) makes n the number of attempts.)
C6_RetriesAreReattempts ==
    (phase = "returned" /\ attempts # None /\ result.kind = "Server") =>
        requests = attempts[1] + 1

\* C7: the budget is always an integer >= 1, and a builder on which neither
\* retry() nor retries() was called has budget 1: its send issues one request,
\* never sleeps, never calls itself, and returns that request's outcome.
C7_DefaultBudgetIsOne ==
    /\ Budget \in Nat /\ Budget >= 1
    /\ attempts = None =>
        /\ Budget = 1
        /\ requests <= 1
        /\ lastSleep = None
        /\ Len(stack) <= 1
        /\ phase = "returned" => (requests = 1 /\ result = last)

\* A send with the default budget has returned a rate limit with a deadline
\* after one request and no sleep.
C7_Witness ==
    /\ phase = "returned"
    /\ attempts = None
    /\ requests = 1
    /\ lastSleep = None
    /\ result.kind = "RateLimited" /\ result.reset # None

\* C24: after an attempt that ended in RateLimited(Some(deadline)) no request
\* of the call is issued before the deadline (the call has waited from the 429
\* response to the deadline at least), and that error is not returned while
\* attempts remain in the budget.
C24_WaitsForDeadline ==
    /\ [][(requests' = requests + 1 /\ last.kind = "RateLimited" /\ last.reset # None) =>
            (lastSleep # None /\ waited >= last.reset[1])]_vars
    /\ [](( /\ phase = "returned"
            /\ result.kind = "RateLimited" /\ result.reset # None) =>
              requests >= Budget)

\* A request has been issued after a rate limit whose deadline was 2 seconds
\* ahead, one second of which was slept.
C24_Witness ==
    /\ requests = 2
    /\ lastSleep = Some(1)
    /\ waited = 2

\* C25: send returns the outcome of the last request it issued: after a 2xx
\* response no further request is issued and that response is the result;
\* otherwise the error returned is the classification of the final attempt.
C25_ReturnsLastOutcome ==
    /\ [][(phase = "sending" /\ last.kind = "Ok") =>
            (requests' = requests /\ last' = last /\ lastSleep' = lastSleep
             /\ phase' \in {"sending", "returned"})]_vars
    /\ [](phase = "returned" => result = last)

\* A 200 after a 500 has been returned.
C25_Witness ==
    /\ phase = "returned"
    /\ requests = 2
    /\ ~only500
    /\ result = OkResponse(200)

\* C29: a response carrying a numeric x-ratelimit-reset header never makes
\* send abort: not when the timestamp is earlier than the current Unix time,
\* and not when the deadline has passed by the time of the sleep. (As claimed;
\* `future - timestamp` and `t - Instant::now()` refute it.)
C29_NeverAborts == abortedBy \notin {"underflow", "sleep"}

---------------------------------------------------------------------------
(* The classification of one response, on every status code. *)

\* One response is received: the reset header is read (lines 264-279) and the
\* response turned into a ClientResult (lines 280-286).
ClassifyResponse ==
    /\ cstep = "input"
    /\ LET r == ResetDeadline(cheader, cunix) IN
       IF r.panic
       THEN cstep' = "panicked" /\ cout' = cout
       ELSE cstep' = "classified" /\ cout' = Classify(cstatus, r.reset)
    /\ UNCHANGED <<cstatus, cheader, cunix, eerr, eclient, estep>>
    /\ UNCHANGED engineVars /\ UNCHANGED selectorVars /\ UNCHANGED zoneVars
    /\ UNCHANGED validateVars /\ UNCHANGED parseVars
    /\ UNCHANGED builderVars
    /\ UNCHANGED threadVars

\* The headers of the response classified: those of Headers, and a timestamp
\* 30 seconds after each Unix time tried.
ClassifyHeaders == Headers \cup {NumericHeader(u + 30) : u \in 0..MaxUnix}

InitClassify ==
    /\ EngineInit /\ BuilderIdle /\ ThreadIdle /\ SelectorIdle /\ ZoneIdle /\ ColorIdle
    /\ cstatus \in StatusLo..StatusHi
    /\ cheader \in ClassifyHeaders
    /\ cunix \in UnixTimes
    /\ cout = NoOutcome
    /\ cstep = "input"
    /\ ErrorIdle

NextClassify == ClassifyResponse

SpecClassify == InitClassify /\ [][NextClassify]_vars

\* C8: the error a non-2xx response becomes is decided by its status code: 429
\* RateLimited, 400 and 422 BadRequest, 401 BadAccessToken, 403 BadOAuthScope,
\* 404 NotFound with the URL, any other 4xx Client(status), any 5xx
\* Server(status); never Http, Serialization, Redirect or Other; and a 2xx
\* response is Ok.
C8_ClassificationByStatus ==
    cstep = "classified" =>
        /\ cstatus \in 200..299 => cout = OkResponse(cstatus)
        /\ cstatus = 429 => cout.kind = "RateLimited"
        /\ cstatus \in {400, 422} => cout = Outcome("BadRequest", None, None, None)
        /\ cstatus = 401 => cout = Outcome("BadAccessToken", None, None, None)
        /\ cstatus = 403 => cout = Outcome("BadOAuthScope", None, None, None)
        /\ cstatus = 404 => cout = Outcome("NotFound", None, None, Some(RequestUrl))
        /\ (cstatus \in 400..499 /\ cstatus \notin {400, 401, 403, 404, 422, 429}) =>
               cout = Outcome("Client", Some(cstatus), None, None)
        /\ cstatus \in 500..599 => cout = Outcome("Server", Some(cstatus), None, None)
        /\ cstatus \in 400..599 =>
               cout.kind \notin {"Ok", "Http", "Serialization", "Redirect", "Other"}

\* A 422 response has been classified BadRequest.
C8_Witness ==
    /\ cstep = "classified"
    /\ cstatus = 422
    /\ cout.kind = "BadRequest"

C26_DeadlineIsDifference ==
    (/\ cstep # "input" /\ cstatus = 429
     /\ cheader.present /\ cheader.numeric
     /\ cunix # None /\ cheader.value >= cunix[1]) =>
        /\ cstep = "classified"
        /\ cout = RateLimited(Some(cheader.value - cunix[1]))
        /\ cheader.value = cunix[1] + 30 => cout.reset = Some(30)

C26_Witness ==
    /\ cstep = "classified"
    /\ cstatus = 429
    /\ cunix # None
    /\ cheader = NumericHeader(cunix[1] + 30)
    /\ cout = RateLimited(Some(30))

---------------------------------------------------------------------------
(* Error::is_client_error on every Error. *)

\* enum Error: every variant, with the payloads that tell values apart.
Errors ==
    {RateLimited(None)} \cup {RateLimited(Some(t)) : t \in 0..MaxReset}
    \cup {Outcome(k, None, None, None) :
             k \in {"BadRequest", "BadAccessToken", "BadOAuthScope", "Http",
                    "Serialization", "Redirect", "Other"}}
    \cup {Outcome("NotFound", None, None, u) : u \in {None, Some(RequestUrl)}}
    \cup {Outcome(k, st, None, None) :
             k \in {"Client", "Server"},
             st \in {None} \cup {Some(c) : c \in StatusLo..StatusHi}}

\* e.is_client_error()
IsClientError ==
    /\ estep = "start"
    /\ eclient' = is_client_error(eerr)
    /\ estep' = "checked"
    /\ UNCHANGED <<eerr, cstatus, cheader, cunix, cout, cstep>>
    /\ UNCHANGED engineVars /\ UNCHANGED selectorVars /\ UNCHANGED zoneVars
    /\ UNCHANGED validateVars /\ UNCHANGED parseVars
    /\ UNCHANGED builderVars
    /\ UNCHANGED threadVars

InitError ==
    /\ EngineInit /\ BuilderIdle /\ ThreadIdle /\ SelectorIdle /\ ZoneIdle /\ ColorIdle
    /\ cstatus = 200 /\ cheader = NoHeader /\ cunix = None
    /\ cout = NoOutcome /\ cstep = "idle"
    /\ eerr \in Errors
    /\ eclient = FALSE
    /\ estep = "start"

NextError == IsClientError

SpecError == InitError /\ [][NextError]_vars

\* C27: is_client_error is true exactly for RateLimited (with or without a
\* deadline), BadRequest, BadAccessToken, BadOAuthScope, NotFound and Client,
\* and false for Server, Http, Serialization, Redirect and Other.
C27_ClientErrorTable ==
    estep = "checked" =>
        /\ eerr.kind \in {"RateLimited", "BadRequest", "BadAccessToken",
                          "BadOAuthScope", "NotFound", "Client"} => eclient
        /\ eerr.kind \in {"Server", "Http", "Serialization", "Redirect", "Other"} =>
              ~eclient
        /\ eerr.kind \in {"RateLimited", "BadRequest", "BadAccessToken",
                          "BadOAuthScope", "NotFound", "Client", "Server", "Http",
                          "Serialization", "Redirect", "Other"}

C27_Witness ==
    /\ estep = "checked"
    /\ eerr = RateLimited(None)
    /\ eclient

---------------------------------------------------------------------------
(* Rendering and parsing selectors. *)

\* format!("{}", s) of a selector s.
Format(s) ==
    /\ sstep = "start"
    /\ sel' = s
    /\ text' = Render(s)
    /\ sstep' = "text"
    /\ UNCHANGED parsed
    /\ UNCHANGED engineVars /\ UNCHANGED classifyVars /\ UNCHANGED zoneVars
    /\ UNCHANGED validateVars /\ UNCHANGED parseVars
    /\ UNCHANGED builderVars
    /\ UNCHANGED threadVars

\* A string t that comes from elsewhere.
Input(t) ==
    /\ sstep = "start"
    /\ text' = t
    /\ sstep' = "text"
    /\ UNCHANGED <<sel, parsed>>
    /\ UNCHANGED engineVars /\ UNCHANGED classifyVars /\ UNCHANGED zoneVars
    /\ UNCHANGED validateVars /\ UNCHANGED parseVars
    /\ UNCHANGED builderVars
    /\ UNCHANGED threadVars

\* text.parse::<Selector>()
ParseText ==
    /\ sstep = "text"
    /\ parsed' = FromStr(text)
    /\ sstep' = "parsed"
    /\ UNCHANGED <<sel, text>>
    /\ UNCHANGED engineVars /\ UNCHANGED classifyVars /\ UNCHANGED zoneVars
    /\ UNCHANGED validateVars /\ UNCHANGED parseVars
    /\ UNCHANGED builderVars
    /\ UNCHANGED threadVars

InitSelector ==
    /\ EngineInit /\ BuilderIdle /\ ThreadIdle /\ ClassifyIdle /\ ZoneIdle /\ ColorIdle
    /\ sel = NoSelector
    /\ text = <<>>
    /\ parsed = NotParsed
    /\ sstep = "start"

NextSelector ==
    \/ \E s \in Selectors : Format(s)
    \/ \E t \in Strings(MaxLen) : Input(t)
    \/ ParseText

SpecSelector == InitSelector /\ [][NextSelector]_vars

\* C9: parsing the rendering of an undecorated selector returns that selector,
\* whatever its payload. (As claimed; split(':') and trim() refute it.)
C9_RoundTrip ==
    (sstep = "parsed" /\ sel # NoSelector) => parsed = ParseOk(sel)

\* C10: a string with no ':' that is not "all" fails to parse with NoLabel.
\* (As claimed; FromStr answers NoValue.)
C10_NoColonIsNoLabel ==
    (sstep = "parsed" /\ text # STR_all /\ \A i \in 1..Len(text) : text[i] # ":") =>
        parsed = ParseErr("NoLabel")

RecognizedLabels ==
    {STR_label, STR_id, STR_group_id, STR_group, STR_location_id, STR_location,
     STR_scene_id}

\* C11: a recognized label followed by ':' and nothing else fails to parse
\* with NoValue. (As claimed; FromStr answers Ok with an empty payload.)
C11_LabelOnlyIsNoValue ==
    (sstep = "parsed" /\ \E l \in RecognizedLabels : text = l \o <<":">>) =>
        parsed = ParseErr("NoValue")

---------------------------------------------------------------------------
(* Decorating a selector and rendering it. *)

\* A base selector s is picked.
Select(s) ==
    /\ zstep = "start"
    /\ zval' = Decorated(s, FALSE, <<>>, FALSE)
    /\ zstep' = "built"
    /\ UNCHANGED <<zarg, ztext>>
    /\ UNCHANGED engineVars /\ UNCHANGED classifyVars /\ UNCHANGED selectorVars
    /\ UNCHANGED validateVars /\ UNCHANGED parseVars
    /\ UNCHANGED builderVars
    /\ UNCHANGED threadVars

\* Selector::zoned(self, z): only a plain Selector has it.
zoned(z) ==
    /\ zstep = "built"
    /\ ~zval.zoned /\ ~zval.random
    /\ zval' = Decorated(zval.selector, TRUE, ZonesFrom(z), FALSE)
    /\ zarg' = z
    /\ UNCHANGED <<ztext, zstep>>
    /\ UNCHANGED engineVars /\ UNCHANGED classifyVars /\ UNCHANGED selectorVars
    /\ UNCHANGED validateVars /\ UNCHANGED parseVars
    /\ UNCHANGED builderVars
    /\ UNCHANGED threadVars

\* Randomize::random(self): on a Selector or a Zoned, not on a Random.
random ==
    /\ zstep = "built"
    /\ ~zval.random
    /\ zval' = Decorated(zval.selector, zval.zoned, zval.zoning, TRUE)
    /\ UNCHANGED <<zarg, ztext, zstep>>
    /\ UNCHANGED engineVars /\ UNCHANGED classifyVars /\ UNCHANGED selectorVars
    /\ UNCHANGED validateVars /\ UNCHANGED parseVars
    /\ UNCHANGED builderVars
    /\ UNCHANGED threadVars

\* format!("{}", x) of the decorated selector.
FormatDecorated ==
    /\ zstep = "built"
    /\ ztext' = RenderDecorated(zval)
    /\ zstep' = "rendered"
    /\ UNCHANGED <<zval, zarg>>
    /\ UNCHANGED engineVars /\ UNCHANGED classifyVars /\ UNCHANGED selectorVars
    /\ UNCHANGED validateVars /\ UNCHANGED parseVars
    /\ UNCHANGED builderVars
    /\ UNCHANGED threadVars

InitZoned ==
    /\ EngineInit /\ BuilderIdle /\ ThreadIdle /\ ClassifyIdle /\ SelectorIdle /\ ColorIdle
    /\ zval = NoDecorated
    /\ zarg = NoZoneArg
    /\ ztext = <<>>
    /\ zstep = "start"

NextZoned ==
    \/ \E s \in BaseSelectors : Select(s)
    \/ \E z \in ZoneArgs : zoned(z)
    \/ random
    \/ FormatDecorated

SpecZoned == InitZoned /\ [][NextZoned]_vars

\* "|z" for each z of zs in order, sixteen zones at a time.
RECURSIVE C12_Suffix(_)
C12_Suffix(zs) ==
    IF zs = <<>> THEN <<>>
    ELSE IF Len(zs) <= 16
    THEN C12_Suffix(SubSeq(zs, 1, Len(zs) - 1)) \o <<"|">> \o Decimal(zs[Len(zs)])
    ELSE C12_Suffix(SubSeq(zs, 1, 16)) \o C12_Suffix(SubSeq(zs, 17, Len(zs)))

C12_LivingRoom == Selector("Group", STR_Living_Room)
C12_Example ==
    <<"g", "r", "o", "u", "p", ":", "L", "i", "v", "i", "n", "g", " ", "R", "o",
      "o", "m", "|", "0", "|", "1", ":", "r", "a", "n", "d", "o", "m">>

\* C12: decorators only append: a zoned selector renders as the base selector
\* followed by "|z" for each zone in order, a randomized one as its inner
\* rendering followed by ":random", and Group("Living Room").zoned(0..2)
\* .random() renders as "group:Living Room|0|1:random".
C12_DecoratorsAppend ==
    zstep = "rendered" =>
        LET inner == IF zval.zoned
                     THEN Render(zval.selector) \o C12_Suffix(zval.zoning)
                     ELSE Render(zval.selector)
        IN /\ ztext = (IF zval.random THEN inner \o STR_random ELSE inner)
           /\ (/\ zval.selector = C12_LivingRoom
               /\ zval.zoned /\ zarg = ZoneArg("Range", 0, 2, <<>>)
               /\ zval.random) => ztext = C12_Example

C12_Witness ==
    /\ zstep = "rendered"
    /\ zval.selector = C12_LivingRoom
    /\ zval.zoned /\ zarg = ZoneArg("Range", 0, 2, <<>>)
    /\ zval.random
    /\ ztext = C12_Example

\* The ascending enumeration lo, ..., hi.
C13_Ascending(list, lo, hi) ==
    /\ Len(list) = (IF hi < lo THEN 0 ELSE hi - lo + 1)
    /\ \A i \in 1..Len(list) : list[i] = lo + i - 1

\* C13: a zone list built from a range is the ascending enumeration of the
\* range, one from an integer is that integer, an explicit list is kept, and
\* every zoned selector carries at least one zone. (As claimed; an empty range
\* or list gives a zoned selector without zones.)
C13_ZoneListsEnumerate ==
    (zstep # "start" /\ zval.zoned) =>
        /\ zarg.shape = "Range" => C13_Ascending(zval.zoning, zarg.a, zarg.b - 1)
        /\ zarg.shape = "RangeInclusive" => C13_Ascending(zval.zoning, zarg.a, zarg.b)
        /\ zarg.shape = "RangeFrom" => C13_Ascending(zval.zoning, zarg.a, 255)
        /\ zarg.shape = "RangeTo" => C13_Ascending(zval.zoning, 0, zarg.b - 1)
        /\ zarg.shape = "RangeToInclusive" => C13_Ascending(zval.zoning, 0, zarg.b)
        /\ zarg.shape = "Single" => zval.zoning = <<zarg.a>>
        /\ zarg.shape = "Vec" => zval.zoning = zarg.list
        /\ Len(zval.zoning) >= 1

---------------------------------------------------------------------------
(* Validating a color. *)

\* c.validate() on a color c.
Validate ==
    /\ vstep = "start"
    /\ \E c \in ValidateInputs :
          /\ vcolor' = c
          /\ vout' = validate(c)
    /\ vstep' = "validated"
    /\ UNCHANGED engineVars /\ UNCHANGED classifyVars /\ UNCHANGED selectorVars
    /\ UNCHANGED zoneVars /\ UNCHANGED parseVars
    /\ UNCHANGED builderVars
    /\ UNCHANGED threadVars

InitValidate ==
    /\ EngineInit /\ BuilderIdle /\ ThreadIdle /\ ClassifyIdle /\ SelectorIdle /\ ZoneIdle /\ ParseIdle
    /\ vcolor = NoColor
    /\ vout = NotValidated
    /\ vstep = "start"

NextValidate == Validate

SpecValidate == InitValidate /\ [][NextValidate]_vars

\* 0.0 <= v <= 1.0 on f32: false for NaN.
C14_InUnitRange(v) ==
    /\ v.class = "num"
    /\ 0 <= v.num
    /\ v.num <= v.den

\* C14: validate enforces the numeric ranges and reports the offending value:
\* Hue(h) is Ok iff h <= 360, Kelvin(k) iff 1500 <= k <= 9000 (KelvinLow below,
\* KelvinHigh above), Saturation(v) and Brightness(v) iff 0.0 <= v <= 1.0 (Low
\* below 0.0, High above 1.0); named colors and Rgb are Ok. (As claimed; a NaN
\* saturation or brightness is reported valid.)
C14_NumericRanges ==
    vstep = "validated" =>
        /\ vcolor.tag = "Hue" =>
              vout = (IF vcolor.n <= 360 THEN Valid
                      ELSE Invalid("Hue", vcolor.n, NoFloat, FALSE, <<>>))
        /\ vcolor.tag = "Kelvin" =>
              vout = (IF vcolor.n < 1500
                      THEN Invalid("KelvinLow", vcolor.n, NoFloat, FALSE, <<>>)
                      ELSE IF vcolor.n > 9000
                      THEN Invalid("KelvinHigh", vcolor.n, NoFloat, FALSE, <<>>)
                      ELSE Valid)
        /\ vcolor.tag \in {"Saturation", "Brightness"} =>
              /\ vout.ok <=> C14_InUnitRange(vcolor.f)
              /\ FloatLt(vcolor.f, F_0_0) =>
                    vout = Invalid(IF vcolor.tag = "Saturation" THEN "SaturationLow"
                                   ELSE "BrightnessLow", 0, vcolor.f, FALSE, <<>>)
              /\ FloatGt(vcolor.f, F_1_0) =>
                    vout = Invalid(IF vcolor.tag = "Saturation" THEN "SaturationHigh"
                                   ELSE "BrightnessHigh", 0, vcolor.f, FALSE, <<>>)
        /\ vcolor.tag \in NamedColors \cup {"Rgb"} => vout = Valid

\* The UTF-8 length of s: one byte per character and one more for each 'é'.
C15_Bytes(s) == Len(s) + Cardinality({i \in 1..Len(s) : s[i] = "é"})

\* The verdict on an RgbStr of the given length.
C15_Verdict(hash, length, s) ==
    LET wanted == IF hash THEN 7 ELSE 6 IN
    IF length = wanted THEN Valid
    ELSE IF length < wanted THEN Invalid("RgbStrShort", 0, NoFloat, hash, s)
    ELSE Invalid("RgbStrLong", 0, NoFloat, hash, s)

C16_OnlyHexAccepted ==
    (vstep = "validated" /\ vcolor.tag = "RgbStr" /\ vout.ok) =>
        LET body == IF StartsWithHash(vcolor.s) THEN Tail(vcolor.s) ELSE vcolor.s
        IN /\ Len(body) = 6
           /\ \A i \in 1..Len(body) : body[i] \in HexDigits

---------------------------------------------------------------------------
(* Parsing a color. *)

\* A string arrives to be parsed as a color.
InputColor ==
    /\ pstep = "start"
    /\ \E t \in ColorInputs : ptext' = t
    /\ pstep' = "text"
    /\ UNCHANGED <<pout, rtext, rout>>
    /\ UNCHANGED engineVars /\ UNCHANGED classifyVars /\ UNCHANGED selectorVars
    /\ UNCHANGED zoneVars /\ UNCHANGED validateVars
    /\ UNCHANGED builderVars
    /\ UNCHANGED threadVars

\* ptext.parse::<Color>()
ParseColor ==
    /\ pstep = "text"
    /\ pout' = ColorFromStr(ptext)
    /\ pstep' = "parsed"
    /\ UNCHANGED <<ptext, rtext, rout>>
    /\ UNCHANGED engineVars /\ UNCHANGED classifyVars /\ UNCHANGED selectorVars
    /\ UNCHANGED zoneVars /\ UNCHANGED validateVars
    /\ UNCHANGED builderVars
    /\ UNCHANGED threadVars

\* Serialize for Color: format!("{}", color) of the color parsed.
Serialize ==
    /\ pstep = "parsed"
    /\ pout.ok
    /\ rtext' = ColorDisplay(pout.color)
    /\ pstep' = "rendered"
    /\ UNCHANGED <<ptext, pout, rout>>
    /\ UNCHANGED engineVars /\ UNCHANGED classifyVars /\ UNCHANGED selectorVars
    /\ UNCHANGED zoneVars /\ UNCHANGED validateVars
    /\ UNCHANGED builderVars
    /\ UNCHANGED threadVars

\* Deserialize for Color: rtext.parse::<Color>()
Deserialize ==
    /\ pstep = "rendered"
    /\ rout' = ColorFromStr(rtext)
    /\ pstep' = "reparsed"
    /\ UNCHANGED <<ptext, pout, rtext>>
    /\ UNCHANGED engineVars /\ UNCHANGED classifyVars /\ UNCHANGED selectorVars
    /\ UNCHANGED zoneVars /\ UNCHANGED validateVars
    /\ UNCHANGED builderVars
    /\ UNCHANGED threadVars

InitColorParse ==
    /\ EngineInit /\ BuilderIdle /\ ThreadIdle /\ ClassifyIdle /\ SelectorIdle /\ ZoneIdle /\ ValidateIdle
    /\ ptext = <<>>
    /\ pout = NoColorResult
    /\ pstep = "start"
    /\ rtext = <<>>
    /\ rout = NoColorResult

NextColorParse ==
    \/ InputColor
    \/ ParseColor
    \/ Serialize
    \/ Deserialize

SpecColorParse == InitColorParse /\ [][NextColorParse]_vars

\* What follows the first ':' of s.
AfterColon(s) ==
    IF \A k \in 1..Len(s) : s[k] # ":" THEN <<>>
    ELSE LET i == CHOOSE k \in 1..Len(s) : s[k] = ":" /\ \A j \in 1..(k - 1) : s[j] # ":"
         IN SubSeq(s, i + 1, Len(s))

\* The comma-separated components of what follows "rgb:".
Components(s) == Split(AfterColon(s), ",")

\* A non-empty string of decimal digits.
IsInteger(x) == x # <<>> /\ IsDigits(x)

\* The component after the first k is absent or empty.
NextMissing(comps, k) == Len(comps) = k \/ comps[k + 1] = <<>>

\* C17: a missing value gives the error of its prefix or component: "hue:",
\* "saturation:", "brightness:", "kelvin:" and "rgb:" fail with NoHue,
\* NoSaturation, NoBrightness, NoKelvin and NoRed; "rgb:" with one integer
\* component and the next absent or empty fails with NoGreen, with two with
\* NoBlue.
C17_MissingValues ==
    pstep = "parsed" =>
        /\ ptext = STR_hue_ => pout = ColorErr("NoHue")
        /\ ptext = STR_saturation_ => pout = ColorErr("NoSaturation")
        /\ ptext = STR_brightness_ => pout = ColorErr("NoBrightness")
        /\ ptext = STR_kelvin_ => pout = ColorErr("NoKelvin")
        /\ ptext = STR_rgb_ => pout = ColorErr("NoRed")
        /\ StartsWith(ptext, STR_rgb_) =>
              LET comps == Components(ptext) IN
              /\ (IsInteger(comps[1]) /\ NextMissing(comps, 1)) =>
                    pout = ColorErr("NoGreen")
              /\ (/\ Len(comps) >= 2
                  /\ IsInteger(comps[1]) /\ IsInteger(comps[2])
                  /\ NextMissing(comps, 2)) => pout = ColorErr("NoBlue")

C17_Witness ==
    /\ pstep = "parsed"
    /\ ptext = STR_rgb_ \o <<"0">>
    /\ pout = ColorErr("NoGreen")

\* C18: for hue, kelvin, saturation and brightness the whole remainder after
\* the first ':' is parsed as the number: a numeric remainder yields the
\* value, and every other non-empty remainder fails with the NonNumeric error
\* of the prefix. (As claimed; the parser reads only up to the second ':' and
\* treats a blank remainder as missing.)
C18_WholeRemainderParsed ==
    (/\ pstep = "parsed"
     /\ \E p \in Prefixes \ {STR_rgb_} : StartsWith(ptext, p)
     /\ AfterColon(ptext) # <<>>) =>
        LET rest == AfterColon(ptext)
            int == ParseUnsigned(rest, MaxU16)
            float == ParseF32(rest)
        IN /\ StartsWith(ptext, STR_hue_) =>
                 pout = (IF int.ok THEN ColorOk(Hue(int.value))
                         ELSE ColorErr("NonNumericHue"))
           /\ StartsWith(ptext, STR_kelvin_) =>
                 pout = (IF int.ok THEN ColorOk(Kelvin(int.value))
                         ELSE ColorErr("NonNumericKelvin"))
           /\ StartsWith(ptext, STR_saturation_) =>
                 pout = (IF float.ok THEN ColorOk(Saturation(float.value))
                         ELSE ColorErr("NonNumericSaturation"))
           /\ StartsWith(ptext, STR_brightness_) =>
                 pout = (IF float.ok THEN ColorOk(Brightness(float.value))
                         ELSE ColorErr("NonNumericBrightness"))

\* C19: "rgb:" parses only when its remainder is exactly three comma-separated
\* integers in 0..=255, and then gives Rgb([r, g, b]). (As claimed; a fourth
\* component and anything after a further ':' are ignored.)
C19_ExactlyThreeComponents ==
    (pstep = "parsed" /\ StartsWith(ptext, STR_rgb_) /\ pout.ok) =>
        LET comps == Components(ptext) IN
        /\ Len(comps) = 3
        /\ \A i \in 1..3 : ParseUnsigned(comps[i], MaxU8).ok
        /\ pout = ColorOk(Rgb([i \in 1..3 |-> ParseUnsigned(comps[i], MaxU8).value]))

\* C20: in an "rgb:" string the first component that is present, non-empty
\* and not an integer is reported with its own NonNumeric variant: "rgb:j"
\* fails with NonNumericRed, "rgb:0,j" with NonNumericGreen, "rgb:0,1,j" with
\* NonNumericBlue. (As claimed; a missing later component is reported first.)
C20_NonNumericComponent ==
    (pstep = "parsed" /\ StartsWith(ptext, STR_rgb_)) =>
        LET comps == Components(ptext)
            Bad(k) == /\ Len(comps) >= k
                      /\ comps[k] # <<>>
                      /\ ~ParseUnsigned(comps[k], MaxU8).ok
                      /\ \A i \in 1..(k - 1) : ParseUnsigned(comps[i], MaxU8).ok
        IN /\ Bad(1) => pout = ColorErr("NonNumericRed")
           /\ Bad(2) => pout = ColorErr("NonNumericGreen")
           /\ Bad(3) => pout = ColorErr("NonNumericBlue")

\* A string that is no keyword and starts with no recognized prefix.
C21_Unrecognized(s) ==
    /\ s \notin Keywords
    /\ \A p \in Prefixes : ~StartsWith(s, p)

C30_RightInverse ==
    pstep = "reparsed" => (rout.ok /\ ColorEq(rout.color, pout.color))

---------------------------------------------------------------------------
(* The builders of states and state changes. *)

\* impl State: the builder methods
State_power(self, on) == [self EXCEPT !.power = Some(on)]
State_color(self, color) == [self EXCEPT !.color = Some(color)]
State_brightness(self, brightness) == [self EXCEPT !.brightness = Some(brightness)]
State_transition(self, duration) == [self EXCEPT !.duration = Some(duration)]
State_infrared(self, infrared) == [self EXCEPT !.infrared = Some(infrared)]

\* impl StateChange: the builder methods
StateChange_power(self, on) == [self EXCEPT !.power = Some(on)]
StateChange_transition(self, duration) == [self EXCEPT !.duration = Some(duration)]
StateChange_hue(self, hue) == [self EXCEPT !.hue = Some(hue)]
StateChange_saturation(self, saturation) == [self EXCEPT !.saturation = Some(saturation)]
StateChange_brightness(self, brightness) == [self EXCEPT !.brightness = Some(brightness)]
StateChange_kelvin(self, temp) == [self EXCEPT !.kelvin = Some(temp)]

\* impl SetState: self.payload.state.<field> = Some(..), self.payload.fast
SetState_power(self, on) == [self EXCEPT !.power = Some(on)]
SetState_color(self, color) == [self EXCEPT !.color = Some(color)]
SetState_brightness(self, brightness) == [self EXCEPT !.brightness = Some(brightness)]
SetState_transition(self, duration) == [self EXCEPT !.duration = Some(duration)]
SetState_infrared(self, ir) == [self EXCEPT !.infrared = Some(ir)]
SetState_fast(self, quickly) == [self EXCEPT !.fast = Some(quickly)]

\* The saturation written into the brightness.
ChangeState_saturation_into_brightness(self, saturation) ==
    [self EXCEPT !.brightness = Some(saturation)]

\* impl ChangeState: self.change.<field> = Some(..)
ChangeState_power(self, on) == [self EXCEPT !.power = Some(on)]
ChangeState_transition(self, duration) == [self EXCEPT !.duration = Some(duration)]
ChangeState_hue(self, hue) == [self EXCEPT !.hue = Some(hue)]
ChangeState_saturation(self, saturation) == [self EXCEPT !.saturation = Some(saturation)]
ChangeState_brightness(self, brightness) == [self EXCEPT !.brightness = Some(brightness)]
ChangeState_kelvin(self, temp) == [self EXCEPT !.kelvin = Some(temp)]
ChangeState_infrared(self, ir) == [self EXCEPT !.infrared = Some(ir)]

\* Attempts::set_attempts for SetState and ChangeState
set_attempts(self, n) == [self EXCEPT !.attempts = Some(n)]

\* The arguments the methods are called with: two values of each type.
Booleans == {TRUE, FALSE}
Colors == {Named("Red"), Hue(MaxHue)}
Levels == {F_0_0, F_1_0}
Durations == {0, 1}
Shifts == {0 - 1, 1}

\* What is serialized of a builder: the fields that are present
\* (skip_serializing_if = "Option::is_none"), each with its value.
Body(self) == {<<f, self[f][1]>> : f \in {g \in BuilderFields : self[g] # None}}

\* A builder is made: State::builder(), StateChange::builder(),
\* SetState::new(parent), ChangeState::new(parent).
New ==
    /\ bstep = "start"
    /\ \E k \in {"State", "StateChange", "SetState", "ChangeState"} : bkind' = k
    /\ builder' = NewBuilder
    /\ bstep' = "building"
    /\ UNCHANGED <<bcall, bcalled, bcalls, brequest>>
    /\ UNCHANGED engineVars /\ UNCHANGED classifyVars /\ UNCHANGED selectorVars
    /\ UNCHANGED zoneVars /\ UNCHANGED validateVars /\ UNCHANGED parseVars
    /\ UNCHANGED threadVars

\* The bookkeeping of one call and everything a call leaves alone.
Called(method, arg) ==
    /\ bcall' = Call(method, arg)
    /\ bcalled' = bcalled \cup {method}
    /\ bcalls' = bcalls + 1
    /\ UNCHANGED <<bkind, brequest, bstep>>
    /\ UNCHANGED engineVars /\ UNCHANGED classifyVars /\ UNCHANGED selectorVars
    /\ UNCHANGED zoneVars /\ UNCHANGED validateVars /\ UNCHANGED parseVars
    /\ UNCHANGED threadVars

\* One builder method is called on a State.
CallState ==
    /\ bstep = "building" /\ bkind = "State" /\ bcalls < MaxCalls
    /\ \/ \E v \in Booleans : builder' = State_power(builder, v) /\ Called("power", v)
       \/ \E v \in Colors : builder' = State_color(builder, v) /\ Called("color", v)
       \/ \E v \in Levels :
             builder' = State_brightness(builder, v) /\ Called("brightness", v)
       \/ \E v \in Durations :
             builder' = State_transition(builder, v) /\ Called("transition", v)
       \/ \E v \in Levels : builder' = State_infrared(builder, v) /\ Called("infrared", v)

\* One builder method is called on a StateChange.
CallStateChange ==
    /\ bstep = "building" /\ bkind = "StateChange" /\ bcalls < MaxCalls
    /\ \/ \E v \in Booleans :
             builder' = StateChange_power(builder, v) /\ Called("power", v)
       \/ \E v \in Durations :
             builder' = StateChange_transition(builder, v) /\ Called("transition", v)
       \/ \E v \in Shifts : builder' = StateChange_hue(builder, v) /\ Called("hue", v)
       \/ \E v \in Levels :
             builder' = StateChange_saturation(builder, v) /\ Called("saturation", v)
       \/ \E v \in Levels :
             builder' = StateChange_brightness(builder, v) /\ Called("brightness", v)
       \/ \E v \in Shifts :
             builder' = StateChange_kelvin(builder, v) /\ Called("kelvin", v)

\* One setter is called on a SetState.
CallSetState ==
    /\ bstep = "building" /\ bkind = "SetState" /\ bcalls < MaxCalls
    /\ \/ \E v \in Booleans : builder' = SetState_power(builder, v) /\ Called("power", v)
       \/ \E v \in Colors : builder' = SetState_color(builder, v) /\ Called("color", v)
       \/ \E v \in Levels :
             builder' = SetState_brightness(builder, v) /\ Called("brightness", v)
       \/ \E v \in Durations :
             builder' = SetState_transition(builder, v) /\ Called("transition", v)
       \/ \E v \in Levels :
             builder' = SetState_infrared(builder, v) /\ Called("infrared", v)
       \/ \E v \in Booleans : builder' = SetState_fast(builder, v) /\ Called("fast", v)

\* One setter is called on a ChangeState.
CallChangeState ==
    /\ bstep = "building" /\ bkind = "ChangeState" /\ bcalls < MaxCalls
    /\ \/ \E v \in Booleans :
             builder' = ChangeState_power(builder, v) /\ Called("power", v)
       \/ \E v \in Durations :
             builder' = ChangeState_transition(builder, v) /\ Called("transition", v)
       \/ \E v \in Shifts : builder' = ChangeState_hue(builder, v) /\ Called("hue", v)
       \/ \E v \in Levels :
             builder' = ChangeState_saturation(builder, v) /\ Called("saturation", v)
       \/ \E v \in Levels :
             builder' = ChangeState_brightness(builder, v) /\ Called("brightness", v)
       \/ \E v \in Shifts :
             builder' = ChangeState_kelvin(builder, v) /\ Called("kelvin", v)
       \/ \E v \in Levels :
             builder' = ChangeState_infrared(builder, v) /\ Called("infrared", v)

\* Retry::retry on a SetState or ChangeState: self.retries(unity())
BuilderRetry ==
    /\ bstep = "building" /\ bkind \in {"SetState", "ChangeState"}
    /\ bcalls < MaxCalls
    /\ builder' = set_attempts(builder, unity)
    /\ Called("retry", unity)

\* Retry::retries(n) on a SetState or ChangeState: self.set_attempts(n)
BuilderRetries ==
    /\ bstep = "building" /\ bkind \in {"SetState", "ChangeState"}
    /\ bcalls < MaxCalls
    /\ \E n \in 1..MaxAttempts :
          builder' = set_attempts(builder, n) /\ Called("retries", n)

\* Send::send on a SetState or ChangeState builds the Request from body() and
\* attempts(); a State or StateChange is serialized as it is.
Hand ==
    /\ bstep = "building"
    /\ brequest' = [body |-> Body(builder),
                    attempts |-> IF builder.attempts = None THEN unity
                                 ELSE builder.attempts[1]]
    /\ bstep' = "sent"
    /\ UNCHANGED <<bkind, builder, bcall, bcalled, bcalls>>
    /\ UNCHANGED engineVars /\ UNCHANGED classifyVars /\ UNCHANGED selectorVars
    /\ UNCHANGED zoneVars /\ UNCHANGED validateVars /\ UNCHANGED parseVars
    /\ UNCHANGED threadVars

InitBuilder ==
    /\ EngineInit /\ ThreadIdle /\ ClassifyIdle /\ SelectorIdle /\ ZoneIdle /\ ColorIdle
    /\ bkind = ""
    /\ builder = NewBuilder
    /\ bcall = NoCall
    /\ bcalled = {}
    /\ bcalls = 0
    /\ brequest = NoRequest
    /\ bstep = "start"

NextBuilder ==
    \/ New
    \/ CallState
    \/ CallStateChange
    \/ CallSetState
    \/ CallChangeState
    \/ BuilderRetry
    \/ BuilderRetries
    \/ Hand

SpecBuilder == InitBuilder /\ [][NextBuilder]_vars

\* The field a method is named to set.
C28_FieldOf(method) == IF method = "transition" THEN "duration" ELSE method

\* All fields of the two builders but f are the same.
C28_OthersKept(before, after, f) ==
    /\ \A g \in BuilderFields \ {f} : after[g] = before[g]
    /\ f # "attempts" => after.attempts = before.attempts

\* C28: on State, StateChange, SetState and ChangeState a setter sets its own
\* field to the value given, whatever the field held, and leaves every other
\* field and the attempts alone; retry() and retries(n) set the attempts, to
\* the last value given, and nothing else; and the body handed over holds
\* exactly the fields some setter was called for, with their latest values.
C28_SettersTouchOwnField ==
    /\ [][bcalls' = bcalls + 1 =>
            IF bcall'.method \in {"retry", "retries"}
            THEN /\ builder'.attempts = Some(bcall'.arg)
                 /\ bcall'.method = "retry" => bcall'.arg = unity
                 /\ C28_OthersKept(builder, builder', "attempts")
            ELSE /\ builder'[C28_FieldOf(bcall'.method)] = Some(bcall'.arg)
                 /\ C28_OthersKept(builder, builder', C28_FieldOf(bcall'.method))]_vars
    /\ [](bstep = "sent" =>
            /\ \A f \in BuilderFields :
                  /\ (\A m \in bcalled : C28_FieldOf(m) # f) =>
                        (\A p \in brequest.body : p[1] # f)
                  /\ (\E m \in bcalled : C28_FieldOf(m) = f) =>
                        <<f, builder[f][1]>> \in brequest.body
            /\ bcalled \cap {"retry", "retries"} = {} => brequest.attempts = unity
            /\ bcall.method \in {"retry", "retries"} => brequest.attempts = bcall.arg)

\* A ChangeState whose saturation was set twice and then its brightness has
\* been handed over with the second saturation.
C28_Witness ==
    /\ bstep = "sent" /\ bkind = "ChangeState"
    /\ bcalls = 3
    /\ bcalled = {"saturation", "brightness"}
    /\ brequest.body = {<<"saturation", F_1_0>>, <<"brightness", F_0_0>>}

---------------------------------------------------------------------------
(* Calls of Request::send on several threads with one Client. *)

\* The attempts of the requests sent: one attempt, and one retry.
ThreadAttempts == {1, 2}

\* The deadlines of the rate limits the server answers with.
ThreadDeadlines == {1, 2}

\* What a request of a call is answered with: a transport failure (`?`
\* returns it from the frame), or a response, classified.
Answer(transport, outcome) == [transport |-> transport, outcome |-> outcome]
Answers ==
    {Answer(TRUE, FromReqwestError(ReqwestError("http", None, None)))}
    \cup {Answer(FALSE, Classify(st, None)) : st \in {200, 401, 500}}
    \cup {Answer(FALSE, Classify(TOO_MANY_REQUESTS, Some(d))) : d \in ThreadDeadlines}

\* The deadline of whichever call was rate limited last.
Deadline_shared(t, shared) == IF shared = None THEN t ELSE shared[1]

\* `if let Error::RateLimited(Some(t)) = e`: the deadline a call sleeps until
\* is the one in its own `result`.
Deadline(t, shared) == t

\* Thread i issues a request and gets its answer: `client.request(..)
\* .bearer_auth(token) .. .send()?`, then the classification.
ThreadRequest(i) ==
    /\ threads[i].phase = "sending" /\ threads[i].pc = "request"
    /\ \E a \in Answers :
          LET th == threads[i]
              sent == [th EXCEPT !.requests = th.requests + 1,
                                 !.history = Append(th.history, a),
                                 !.auth = token,
                                 !.result = a.outcome,
                                 !.pc = "loop"]
              frames == SubSeq(th.stack, 1, Len(th.stack) - 1)
          IN /\ threads' = [threads EXCEPT ![i] =
                   IF a.transport
                   THEN [sent EXCEPT !.stack = frames,
                                     !.phase = IF frames = <<>> THEN "returned"
                                               ELSE "sending"]
                   ELSE sent]
             /\ learned' = IF a.outcome.kind = "RateLimited" /\ a.outcome.reset # None
                            THEN a.outcome.reset ELSE learned
    /\ UNCHANGED token
    /\ UNCHANGED engineVars /\ UNCHANGED classifyVars /\ UNCHANGED selectorVars
    /\ UNCHANGED zoneVars /\ UNCHANGED validateVars /\ UNCHANGED parseVars
    /\ UNCHANGED builderVars

\* The innermost frame of thread i returns its `result`: the loop is over,
\* the result is Ok, or it is a client error without a deadline.
ThreadReturn(i) ==
    LET th == threads[i]
        frames == SubSeq(th.stack, 1, Len(th.stack) - 1)
    IN
    /\ th.phase = "sending" /\ th.pc = "loop"
    /\ \/ th.stack[Len(th.stack)] = 0
       \/ th.result.kind = "Ok"
       \/ /\ ~(th.result.kind = "RateLimited" /\ th.result.reset # None)
          /\ is_client_error(th.result)
    /\ threads' = [threads EXCEPT ![i] =
          [th EXCEPT !.stack = frames,
                     !.phase = IF frames = <<>> THEN "returned" ELSE "sending"]]
    /\ UNCHANGED <<token, learned>>
    /\ UNCHANGED engineVars /\ UNCHANGED classifyVars /\ UNCHANGED selectorVars
    /\ UNCHANGED zoneVars /\ UNCHANGED validateVars /\ UNCHANGED parseVars
    /\ UNCHANGED builderVars

\* Thread i was rate limited with a deadline and has iterations left: it
\* sleeps until the deadline.
ThreadSleep(i) ==
    LET th == threads[i] IN
    /\ th.phase = "sending" /\ th.pc = "loop"
    /\ th.stack[Len(th.stack)] > 0
    /\ th.result.kind = "RateLimited" /\ th.result.reset # None
    /\ threads' = [threads EXCEPT ![i] =
          [th EXCEPT !.waits = Append(th.waits, Deadline(th.result.reset[1], learned)),
                     !.pc = "slept"]]
    /\ UNCHANGED <<token, learned>>
    /\ UNCHANGED engineVars /\ UNCHANGED classifyVars /\ UNCHANGED selectorVars
    /\ UNCHANGED zoneVars /\ UNCHANGED validateVars /\ UNCHANGED parseVars
    /\ UNCHANGED builderVars

\* `result = self.send()` on thread i, after the sleep or on an error that is
\* no client error: one more frame, or the overflow of the thread's stack.
ThreadRetry(i) ==
    LET th == threads[i]
        top == th.stack[Len(th.stack)]
    IN
    /\ th.phase = "sending"
    /\ \/ th.pc = "slept"
       \/ /\ th.pc = "loop" /\ top > 0
          /\ th.result.kind # "Ok"
          /\ ~(th.result.kind = "RateLimited" /\ th.result.reset # None)
          /\ ~is_client_error(th.result)
    /\ threads' = [threads EXCEPT ![i] =
          IF Len(th.stack) < StackLimit
          THEN [th EXCEPT !.stack = Append([th.stack EXCEPT ![Len(th.stack)] = top - 1],
                                           LoopIterations(th.attempts)),
                          !.pc = "request",
                          !.result = NoOutcome]
          ELSE [th EXCEPT !.phase = "aborted", !.result = NoOutcome]]
    /\ UNCHANGED <<token, learned>>
    /\ UNCHANGED engineVars /\ UNCHANGED classifyVars /\ UNCHANGED selectorVars
    /\ UNCHANGED zoneVars /\ UNCHANGED validateVars /\ UNCHANGED parseVars
    /\ UNCHANGED builderVars

\* Every thread has built its Request and is about to call send.
InitThreads ==
    /\ EngineInit /\ BuilderIdle /\ ClassifyIdle /\ SelectorIdle /\ ZoneIdle /\ ColorIdle
    /\ threads \in [Threads -> {Thread(n, "sending", <<LoopIterations(n)>>, "request",
                                        NoOutcome, 0, <<>>, <<>>, "")
                                 : n \in ThreadAttempts}]
    /\ token = "token"
    /\ learned = None

NextThreads ==
    \E i \in Threads :
        \/ ThreadRequest(i)
        \/ ThreadReturn(i)
        \/ ThreadSleep(i)
        \/ ThreadRetry(i)

SpecThreads == InitThreads /\ [][NextThreads]_vars

\* What one call of send does when nothing else runs, read off the function:
\* send with n attempts, answered by the answers h in turn, `depth` frames
\* deep. The result, the answers left over, the requests issued, the deadlines
\* slept until, and whether the stack overflowed.
C22_Run(res, rest, reqs, waits, aborted) ==
    [result |-> res, rest |-> rest, requests |-> reqs, waits |-> waits,
     aborted |-> aborted]

RECURSIVE C22_Send(_, _, _)
RECURSIVE C22_Loop(_, _, _, _)
C22_Send(n, h, depth) ==
    IF Head(h).transport THEN C22_Run(Head(h).outcome, Tail(h), 1, <<>>, FALSE)
    ELSE C22_Loop(n, LoopIterations(n), depth,
                  C22_Run(Head(h).outcome, Tail(h), 1, <<>>, FALSE))

C22_Loop(n, left, depth, run) ==
    LET e == run.result
        limited == e.kind = "RateLimited" /\ e.reset # None
        waits == IF limited THEN Append(run.waits, e.reset[1]) ELSE run.waits
    IN
    IF left = 0 \/ e.kind = "Ok" THEN run
    ELSE IF ~limited /\ is_client_error(e) THEN run
    ELSE IF depth >= StackLimit
    THEN C22_Run(NoOutcome, run.rest, run.requests, waits, TRUE)
    ELSE LET inner == C22_Send(n, run.rest, depth + 1) IN
         IF inner.aborted
         THEN C22_Run(NoOutcome, inner.rest, run.requests + inner.requests,
                      waits \o inner.waits, TRUE)
         ELSE C22_Loop(n, left - 1, depth,
                       C22_Run(inner.result, inner.rest, run.requests + inner.requests,
                               waits \o inner.waits, FALSE))

\* C22: calls of send running at the same time on separate threads with one
\* Client do not influence one another. Whatever the interleaving, a call
\* that has ended issued the requests, slept until the deadlines and returned
\* the result that its own attempts and the answers to its own requests give
\* when it runs alone; every deadline a call sleeps until is one of its own
\* answers'; and no step changes the client's token.
C22_CallsAreIndependent ==
    /\ [](\A i \in Threads :
            threads[i].phase \in {"returned", "aborted"} =>
                LET th == threads[i]
                    alone == C22_Send(th.attempts, th.history, 1)
                IN /\ alone.rest = <<>>
                   /\ alone.aborted = (th.phase = "aborted")
                   /\ alone.result = th.result
                   /\ alone.requests = th.requests
                   /\ alone.waits = th.waits)
    /\ [](\A i \in Threads : \A k \in 1..Len(threads[i].waits) :
            \E j \in 1..Len(threads[i].history) :
                threads[i].history[j].outcome = RateLimited(Some(threads[i].waits[k])))
    /\ [][token' = token]_vars

\* Both calls have ended, the first after sleeping until its deadline 1 while
\* the second was given the deadline 2 and returned it.
C22_Witness ==
    /\ threads[1].phase = "returned" /\ threads[1].waits = <<1>>
    /\ threads[1].requests = 2
    /\ threads[2].phase = "returned" /\ threads[2].result = RateLimited(Some(2))
    /\ learned = Some(2)

====
